---- MODULE Spec2Model ----
(***************************************************************************)
(* Model of the swhm-stac-catalog repository:                              *)
(*   - upload_stac_assets and the cataloging notebook that calls it        *)
(*     (src/unnamed/part_000),                                             *)
(*   - the two archived definitions of create_gcs_catalog                  *)
(*     (src/catalog/scripts/archive/old_generate_catalog.ipynb),           *)
(*   - the two collection documents (the one after the notebook and        *)
(*     src/catalog/scripts/ipynb/catalog/raster/collection.json),          *)
(*   - the Hero banner component (src/stac-browser/src/components/Hero.vue)*)
(* Python strings are modelled as sequences of one-character strings, so   *)
(* that basename, join, relpath and endswith are computed as the code      *)
(* computes them.  The Hero component only concatenates, so its strings    *)
(* are TLA+ strings.                                                       *)
(***************************************************************************)
EXTENDS Integers, Sequences, FiniteSets, TLC

VARIABLES
    root_dir,   \* upload_stac_assets argument
    bucket,     \* upload_stac_assets argument
    prefix,     \* upload_stac_assets argument
    tree,       \* the files on local disk below root_dir: [dir, name] records
    pc,         \* position inside upload_stac_assets
    walk,       \* os.walk's stack of directories still to visit
    cur,        \* the matching file of the current loop iteration
    calls,      \* the subprocess.run calls made so far, in order
    stdout,     \* the lines printed so far
    cell,       \* the notebook cell to execute next
    listing,    \* the blobs the bucket holds under GCS_PREFIX, in listing order
    blobs,      \* the notebook's global blobs
    collection, \* the notebook's global collection (a pystac.Collection)
    steps,      \* the steps of the script completed so far, in order
    touched,    \* per operation, the shared values it has read or changed
    hero_props, \* the props the parent passes to the Hero component
    hero_dom,   \* what the Hero component has rendered
    hero_dirty, \* a prop changed since the last render
    hero_out,   \* what has left the Hero component: events, calls, errors
    hero_trace, \* the props of the latest render and the render before it
    listcall,   \* one call of list_blobs_with_prefix
    archive     \* one call of an archived create_gcs_catalog

uploadVars == <<root_dir, bucket, prefix, tree, pc, walk, cur, calls, stdout>>

scriptVars == <<cell, listing, blobs, collection, steps, touched>>

heroVars == <<hero_props, hero_dom, hero_dirty, hero_out, hero_trace>>

callVars == <<listcall, archive>>

vars == <<root_dir, bucket, prefix, tree, pc, walk, cur, calls, stdout,
          cell, listing, blobs, collection, steps, touched,
          hero_props, hero_dom, hero_dirty, hero_out, hero_trace,
          listcall, archive>>

\* The Hero component before it is used
NoProp == [given |-> FALSE, value |-> "", type |-> "Undefined"]

Unmounted == [mounted |-> FALSE, h1 |-> "", p |-> "", style |-> [backgroundImage |-> ""]]

NoOutput == [events |-> {}, calls |-> {}, errors |-> {}]

NoPrev == [rendered |-> FALSE]

NoTrace == [last |-> NoPrev, prev |-> NoPrev]

HeroUnused ==
    /\ hero_props = [title |-> NoProp, subtitle |-> NoProp, backgroundImage |-> NoProp]
    /\ hero_dom = Unmounted
    /\ hero_dirty = FALSE
    /\ hero_out = NoOutput
    /\ hero_trace = NoTrace

\* list_blobs_with_prefix has not been called on its own
NoListCall == [pc |-> "idle"]

\* No archived function has been called
NoArchive == [pc |-> "idle"]

CallsUnused == listcall = NoListCall /\ archive = NoArchive

-----------------------------------------------------------------------------
(* Bounds of the model.                                                    *)

MaxFiles == 3

-----------------------------------------------------------------------------
(* Python string and os.path functions on character sequences.             *)

Slash == <<"/">>

JsonExt == <<".", "j", "s", "o", "n">>

GsScheme == <<"g", "s", ":", "/", "/">>

DotDot == <<".", ".">>

\* The process's working directory, which os.path.abspath prepends.
Cwd == <<"/", "w">>

\* str.endswith
EndsWith(s, suffix) ==
    /\ Len(s) >= Len(suffix)
    /\ SubSeq(s, Len(s) - Len(suffix) + 1, Len(s)) = suffix

\* str.startswith
StartsWith(s, pre) ==
    /\ Len(s) >= Len(pre)
    /\ SubSeq(s, 1, Len(pre)) = pre

\* str.rfind('/') + 1: the index of the last '/', 0 when there is none
LastSlash(p) ==
    LET idx == {i \in 1..Len(p) : p[i] = "/"}
    IN  IF idx = {} THEN 0 ELSE CHOOSE i \in idx : \A j \in idx : j <= i

\* os.path.basename: what follows the last '/'
basename(p) == SubSeq(p, LastSlash(p) + 1, Len(p))

\* os.path.join(a, b)
join(a, b) ==
    IF StartsWith(b, Slash) THEN b
    ELSE IF a = <<>> \/ EndsWith(a, Slash) THEN a \o b
    ELSE a \o Slash \o b

\* str.split('/')
RECURSIVE SplitSlash(_)
SplitSlash(s) ==
    LET idx == {i \in 1..Len(s) : s[i] = "/"}
    IN  IF idx = {} THEN <<s>>
        ELSE LET i == CHOOSE k \in idx : \A j \in idx : k <= j
             IN  <<SubSeq(s, 1, i - 1)>> \o SplitSlash(SubSeq(s, i + 1, Len(s)))

\* '/'.join(comps)
RECURSIVE JoinSlash(_)
JoinSlash(comps) ==
    IF comps = <<>> THEN <<>>
    ELSE IF Len(comps) = 1 THEN comps[1]
    ELSE comps[1] \o Slash \o JoinSlash(Tail(comps))

\* The loop of posixpath.normpath over the components of an absolute path:
\* '' and '.' are skipped, '..' pops (and is dropped at the root).
RECURSIVE NormComps(_, _)
NormComps(comps, acc) ==
    IF comps = <<>> THEN acc
    ELSE LET c == Head(comps)
         IN  IF c = <<>> \/ c = <<".">> THEN NormComps(Tail(comps), acc)
             ELSE IF c = DotDot
                  THEN NormComps(Tail(comps),
                                 IF acc = <<>> THEN acc
                                 ELSE SubSeq(acc, 1, Len(acc) - 1))
             ELSE NormComps(Tail(comps), Append(acc, c))

\* The non-empty components of os.path.abspath(p)
AbsComps(p) ==
    NormComps(SplitSlash(IF StartsWith(p, Slash) THEN p ELSE join(Cwd, p)), <<>>)

\* len(os.path.commonprefix([a, b])) on component lists
CommonLen(a, b) ==
    LET n == IF Len(a) < Len(b) THEN Len(a) ELSE Len(b)
        same == {k \in 0..n : \A j \in 1..k : a[j] = b[j]}
    IN  CHOOSE k \in same : \A j \in same : j <= k

\* os.path.relpath(path, start)
relpath(path, start) ==
    LET start_list == AbsComps(start)
        path_list == AbsComps(path)
        i == CommonLen(start_list, path_list)
        rel_list == [k \in 1..(Len(start_list) - i) |-> DotDot]
                    \o SubSeq(path_list, i + 1, Len(path_list))
    IN  IF rel_list = <<>> THEN <<".">> ELSE JoinSlash(rel_list)

-----------------------------------------------------------------------------
(* The directory tree that os.walk(root_dir) scans.  A directory is the    *)
(* sequence of directory names leading to it from root_dir (<<>> is        *)
(* root_dir itself); a file is a [dir, name] record.                       *)

A == <<"a">>

B == <<"b">>

R == <<"r">>

X == <<"x">>

\* The files a tree is drawn from: matching and non-matching names at the
\* top, in sub-directories and in a nested sub-directory.
FileUniverse ==
    { [dir |-> <<>>, name |-> R \o JsonExt],
      [dir |-> <<>>, name |-> JsonExt],
      [dir |-> <<>>, name |-> X \o JsonExt],
      [dir |-> <<A>>, name |-> A \o JsonExt],
      [dir |-> <<A>>, name |-> X \o JsonExt],
      [dir |-> <<B>>, name |-> B \o JsonExt],
      [dir |-> <<A, B>>, name |-> B \o JsonExt],
      [dir |-> <<A, B>>, name |-> A \o JsonExt] }

Trees == {t \in SUBSET FileUniverse : Cardinality(t) <= MaxFiles}

\* The directories of the tree: root_dir and every ancestor of a file
Dirs(t) ==
    {<<>>} \cup UNION { {SubSeq(f.dir, 1, k) : k \in 0..Len(f.dir)} : f \in t }

\* the dirnames os.scandir reports for a directory
Subdirs(t, node) ==
    {d \in Dirs(t) : Len(d) = Len(node) + 1 /\ SubSeq(d, 1, Len(node)) = node}

\* the filenames os.scandir reports for a directory
Filenames(t, node) == {f.name : f \in {g \in t : g.dir = node}}

\* the orders in which scandir may report a set of directories
Orders(S) ==
    {s \in [1..Cardinality(S) -> S] : \A i, j \in 1..Cardinality(S) : s[i] = s[j] => i = j}

-----------------------------------------------------------------------------
(* upload_stac_assets(root_dir, bucket, prefix)                            *)

NoCur == [src |-> <<>>, dst |-> <<>>, node |-> <<>>, name |-> <<>>]

\* expected_filename = f"{current_dir_name}.json"
expected_filename(dirpath) == basename(dirpath) \o JsonExt

\* Variant: the destination leaves out the prefix
gcs_destination_NoPrefix(b, p, relative_path) ==
    GsScheme \o b \o Slash \o relative_path

\* gcs_destination = f"gs://{bucket}/{prefix}{relative_path}"
gcs_destination(b, p, relative_path) ==
    GsScheme \o b \o Slash \o p \o relative_path

\* Variant: the directory just yielded stays on the stack (as when a walk
\* follows a link back to a directory it has already visited)
WalkRest_KeepsDirectory(stack, children) == children \o stack

\* os.walk: the directory just yielded leaves the stack and its
\* sub-directories are visited next, before the directories already waiting
WalkRest(stack, children) == children \o Tail(stack)

\* Variant: the missing tool is treated like a failed copy
ExceptClause_MissingToolContinues(exc) ==
    IF exc \in {"FileNotFoundError", "CalledProcessError"} THEN "continue"
    ELSE "propagate"

\* Variant: a non-zero exit stops the function like a missing tool
ExceptClause_NonZeroExitReturns(exc) ==
    IF exc \in {"FileNotFoundError", "CalledProcessError"} THEN "return"
    ELSE "propagate"

\* Variant: a bare "except Exception" in place of the second clause
ExceptClause_CatchesEverything(exc) ==
    IF exc = "FileNotFoundError" THEN "return" ELSE "continue"

\* What the try statement does with an exception raised by subprocess.run
ExceptClause(exc) ==
    IF exc = "FileNotFoundError" THEN "return"
    ELSE IF exc = "CalledProcessError" THEN "continue"
    ELSE "propagate"

\* Variant: the child is started and not waited for (subprocess.Popen)
PcAfterStart_NoWait == "loop"

\* subprocess.run returns only when the child has exited
PcAfterStart == "running"

Line(msg, arg) == [msg |-> msg, arg |-> arg]

Ended == {"done", "returned", "raised"}

\* The exceptions subprocess.run can raise before the child runs ...
LaunchErrors == {"FileNotFoundError", "PermissionError"}

\* ... and once it runs: a non-zero exit under check=True, or a failure to
\* decode the captured output under text=True.
RunErrors == {"CalledProcessError", "UnicodeDecodeError"}

\* lines 389-396: the header is printed and os.walk starts at root_dir
UploadStart ==
    /\ pc = "start"
    /\ stdout' = stdout \o << Line("Starting scan in", root_dir),
                              Line("Uploading to", GsScheme \o bucket \o Slash \o prefix),
                              Line("-", <<>>) >>
    /\ walk' = << [path |-> root_dir, node |-> <<>>] >>
    /\ pc' = "loop"
    /\ UNCHANGED <<root_dir, bucket, prefix, tree, cur, calls>>

\* lines 396-428: one iteration of the for loop, up to the call of
\* subprocess.run when the directory holds a file of the expected name
WalkStep ==
    /\ pc = "loop"
    /\ walk # <<>>
    /\ LET dirpath == Head(walk).path
           node == Head(walk).node
           filenames == Filenames(tree, node)
           expected == expected_filename(dirpath)
           local_file_path == join(dirpath, expected)
           relative_path == relpath(local_file_path, root_dir)
           dst == gcs_destination(bucket, prefix, relative_path)
       IN  /\ \E order \in Orders(Subdirs(tree, node)) :
                 walk' = WalkRest(walk,
                            [i \in 1..Len(order) |->
                               [path |-> join(dirpath, order[i][Len(order[i])]),
                                node |-> order[i]]])
           /\ IF expected \in filenames
              THEN /\ cur' = [src |-> local_file_path, dst |-> dst,
                              node |-> node, name |-> expected]
                   /\ stdout' = stdout \o << Line("Found matching asset", local_file_path),
                                             Line("  -> Uploading to", dst),
                                             Line("  -> Executing", local_file_path \o <<" ">> \o dst) >>
                   /\ pc' = "launch"
              ELSE /\ UNCHANGED <<cur, stdout>>
                   /\ pc' = "loop"
    /\ UNCHANGED <<root_dir, bucket, prefix, tree, calls>>

\* What the handlers of lines 436-446 print and where they leave the function
Handled(exc, src) ==
    CASE ExceptClause(exc) = "return" ->
           [out |-> << Line("  -> ERROR: 'gsutil' command not found.", <<>>),
                       Line("     Please ensure the Google Cloud SDK is installed", <<>>) >>,
            pc |-> "returned"]
      [] ExceptClause(exc) = "continue" ->
           [out |-> << Line("  -> ERROR: Upload failed for", src),
                       Line("  -> gsutil stderr", <<>>),
                       Line("-", <<>>) >>,
            pc |-> "loop"]
      [] OTHER -> [out |-> <<>>, pc |-> "raised"]

\* line 432: subprocess.run starts the child process
RunLaunch ==
    /\ pc = "launch"
    /\ calls' = Append(calls, [src |-> cur.src, dst |-> cur.dst, node |-> cur.node,
                               name |-> cur.name, outcome |-> "pending"])
    /\ pc' = PcAfterStart
    /\ UNCHANGED <<root_dir, bucket, prefix, tree, walk, cur, stdout>>

\* line 432: the child cannot be started; lines 436-440 or propagation
RunLaunchFails ==
    /\ pc = "launch"
    /\ \E exc \in LaunchErrors :
          /\ calls' = Append(calls, [src |-> cur.src, dst |-> cur.dst, node |-> cur.node,
                                     name |-> cur.name, outcome |-> exc])
          /\ stdout' = stdout \o Handled(exc, cur.src).out
          /\ pc' = Handled(exc, cur.src).pc
    /\ UNCHANGED <<root_dir, bucket, prefix, tree, walk, cur>>

\* Variant: the tool moves the file instead of copying it ("gsutil mv")
RunSucceeds_MovesFile ==
    /\ pc = "running"
    /\ calls' = [calls EXCEPT ![Len(calls)].outcome = "ok"]
    /\ stdout' = stdout \o << Line("  -> Upload successful!", <<>>), Line("-", <<>>) >>
    /\ tree' = tree \ {[dir |-> cur.node, name |-> cur.name]}
    /\ pc' = "loop"
    /\ UNCHANGED <<root_dir, bucket, prefix, walk, cur>>

\* lines 432-434, 446: the child exits with code 0
RunSucceeds ==
    /\ pc = "running"
    /\ calls' = [calls EXCEPT ![Len(calls)].outcome = "ok"]
    /\ stdout' = stdout \o << Line("  -> Upload successful!", <<>>), Line("-", <<>>) >>
    /\ pc' = "loop"
    /\ UNCHANGED <<root_dir, bucket, prefix, tree, walk, cur>>

\* Variant: subprocess.run without check=True, a non-zero exit goes unnoticed
RunFails_Unchecked ==
    /\ pc = "running"
    /\ calls' = [calls EXCEPT ![Len(calls)].outcome = "CalledProcessError"]
    /\ stdout' = stdout \o << Line("  -> Upload successful!", <<>>), Line("-", <<>>) >>
    /\ pc' = "loop"
    /\ UNCHANGED <<root_dir, bucket, prefix, tree, walk, cur>>

\* line 432 raises after the child ran; lines 441-446 or propagation
RunFails ==
    /\ pc = "running"
    /\ \E exc \in RunErrors :
          /\ calls' = [calls EXCEPT ![Len(calls)].outcome = exc]
          /\ stdout' = stdout \o Handled(exc, cur.src).out
          /\ pc' = Handled(exc, cur.src).pc
    /\ UNCHANGED <<root_dir, bucket, prefix, tree, walk, cur>>

\* line 396: os.walk is exhausted and the function returns
WalkEnd ==
    /\ pc = "loop"
    /\ walk = <<>>
    /\ pc' = "done"
    /\ UNCHANGED <<root_dir, bucket, prefix, tree, walk, cur, calls, stdout>>

\* The arguments the function is checked with
RootDirs == { R, R \o Slash, Cwd \o Slash \o R }

Buckets == { <<"b", "k">> }

Prefixes == { <<>>, <<"p">>, <<"p", "/">> }

\* The operations of the script and the values they can share
Ops == {"listing", "setup", "inspection", "construction", "normalization", "save", "upload"}

NoCollection == [defined |-> FALSE, self_href |-> <<>>, items |-> <<>>, catalog_type |-> "None"]

InitUpload ==
    /\ cell = "uploading"
    /\ listing = <<>>
    /\ blobs = [defined |-> FALSE, list |-> <<>>]
    /\ collection = NoCollection
    /\ steps = <<>>
    /\ touched = [o \in Ops |-> {}]
    /\ HeroUnused
    /\ CallsUnused
    /\ root_dir \in RootDirs
    /\ bucket \in Buckets
    /\ prefix \in Prefixes
    /\ tree \in Trees
    /\ pc = "start"
    /\ walk = <<>>
    /\ cur = NoCur
    /\ calls = <<>>
    /\ stdout = <<>>

NextUpload ==
    \/ UploadStart /\ UNCHANGED <<scriptVars, heroVars, callVars>>
    \/ WalkStep /\ UNCHANGED <<scriptVars, heroVars, callVars>>
    \/ RunLaunch /\ UNCHANGED <<scriptVars, heroVars, callVars>>
    \/ RunLaunchFails /\ UNCHANGED <<scriptVars, heroVars, callVars>>
    \/ RunSucceeds /\ UNCHANGED <<scriptVars, heroVars, callVars>>
    \/ RunFails /\ UNCHANGED <<scriptVars, heroVars, callVars>>
    \/ WalkEnd /\ UNCHANGED <<scriptVars, heroVars, callVars>>

SpecUpload == InitUpload /\ [][NextUpload]_vars

-----------------------------------------------------------------------------
(* Properties of upload_stac_assets.                                       *)

\* the dirpath os.walk reports for a directory of the tree
RECURSIVE DirPath(_)
DirPath(node) ==
    IF node = <<>> THEN root_dir
    ELSE join(DirPath(SubSeq(node, 1, Len(node) - 1)), node[Len(node)])

\* the files the loop passes to the copy tool when it reaches them
MatchingFiles == {f \in tree : f.name = expected_filename(DirPath(f.dir))}

\* the files a copy has been attempted for
Attempted == {[dir |-> calls[i].node, name |-> calls[i].name] : i \in DOMAIN calls}

Reports(line) == Cardinality({k \in DOMAIN stdout : stdout[k] = line})

FailureReport(src) == Line("  -> ERROR: Upload failed for", src)

MissingToolReport == Line("  -> ERROR: 'gsutil' command not found.", <<>>)

Unhandled == (LaunchErrors \cup RunErrors) \ {"FileNotFoundError", "CalledProcessError"}

\* C1: a copy that cannot be launched because the tool is missing
\* (FileNotFoundError) is reported, is the last copy attempted, and the
\* function has returned: no later matching file gets a copy attempt.
C1_MissingToolAborts ==
    \A i \in DOMAIN calls :
        calls[i].outcome = "FileNotFoundError" =>
            /\ i = Len(calls)
            /\ pc = "returned"
            /\ Reports(MissingToolReport) = 1
            /\ stdout[Len(stdout) - 1] = MissingToolReport

\* C1 witness: the function returned on a missing tool while a matching
\* file further along the walk had not been attempted.
C1_Witness ==
    /\ pc = "returned"
    /\ calls # <<>>
    /\ calls[Len(calls)].outcome = "FileNotFoundError"
    /\ walk # <<>>
    /\ MatchingFiles \ Attempted # {}

\* C2: a non-zero exit (CalledProcessError) is reported once, for its own
\* file, and does not end the function: the loop goes on, and when the
\* function has ended without a missing tool or an unhandled error every
\* matching file has had its copy attempt, however many of them failed.
C2_NonZeroExitContinues ==
    /\ \A i \in DOMAIN calls :
          calls[i].outcome = "CalledProcessError" =>
              /\ Reports(FailureReport(calls[i].src)) = 1
              /\ i = Len(calls) => pc \in {"loop", "launch", "done"}
    /\ (/\ pc \in Ended
        /\ \A i \in DOMAIN calls : calls[i].outcome \in {"ok", "CalledProcessError"})
         => MatchingFiles \subseteq Attempted
    /\ Cardinality({k \in DOMAIN stdout : stdout[k].msg = FailureReport(<<>>).msg})
         = Cardinality({i \in DOMAIN calls : calls[i].outcome = "CalledProcessError"})

\* C2 witness: the function finished after two files failed with a non-zero
\* exit and a third, later file was still attempted.
C2_Witness ==
    /\ pc = "done"
    /\ Len(calls) >= 3
    /\ calls[1].outcome = "CalledProcessError"
    /\ calls[2].outcome = "CalledProcessError"

\* C3: no file is passed to the copy tool twice within one call.
C3_NoRetry ==
    \A i, j \in DOMAIN calls :
        (calls[i].src = calls[j].src \/
         (calls[i].node = calls[j].node /\ calls[i].name = calls[j].name)) => i = j

\* C3 witness: the function has ended after a copy that succeeded, a copy
\* that exited non-zero and a copy that could not be launched.
C3_Witness ==
    /\ pc \in Ended
    /\ {"ok", "CalledProcessError", "FileNotFoundError"}
         \subseteq {calls[i].outcome : i \in DOMAIN calls}

\* C4: an exception of the copy step other than FileNotFoundError and
\* CalledProcessError is not caught: nothing is reported for it, it leaves
\* the function as an error and no later file is attempted; the two handled
\* conditions never leave the function as an error.
C4_OtherFailuresPropagate ==
    /\ \A i \in DOMAIN calls :
          calls[i].outcome \in Unhandled =>
              /\ i = Len(calls)
              /\ pc = "raised"
              /\ stdout[Len(stdout)].msg = "  -> Executing"
    /\ pc = "raised" => (calls # <<>> /\ calls[Len(calls)].outcome \in Unhandled)

\* C4 witness: the function was left by an unhandled error while a matching
\* file further along the walk had not been attempted.
C4_Witness ==
    /\ pc = "raised"
    /\ walk # <<>>
    /\ MatchingFiles \ Attempted # {}

\* the name of a directory of the tree; for root_dir itself, the last
\* component of its absolute path
DirectoryName(node) ==
    IF node = <<>>
    THEN LET comps == AbsComps(root_dir) IN IF comps = <<>> THEN <<>> ELSE comps[Len(comps)]
    ELSE node[Len(node)]

\* the files laid out as <asset>/<asset>.json
AssetLayoutFiles == {f \in tree : f.name = DirectoryName(f.dir) \o JsonExt}

\* C5: a file is passed to the copy tool only if its name is the name of
\* the directory that contains it followed by ".json", and when the walk has
\* finished every such file has been passed to it.
C5_CopiesExactlyAssetLayoutFiles ==
    /\ Attempted \subseteq AssetLayoutFiles
    /\ pc = "done" => AssetLayoutFiles \subseteq Attempted

\* the object inside the prefix folder at the file's path relative to root_dir
MirroredDestination(f) ==
    GsScheme \o bucket \o Slash
      \o (IF prefix = <<>> \/ EndsWith(prefix, Slash) THEN prefix ELSE prefix \o Slash)
      \o JoinSlash(f.dir \o <<f.name>>)

\* C6: every copy goes to the object that lies inside the prefix folder at
\* the file's path relative to root_dir.
C6_DestinationMirrorsRelativePath ==
    \A i \in DOMAIN calls :
        calls[i].dst = MirroredDestination([dir |-> calls[i].node, name |-> calls[i].name])

InFlight == {i \in DOMAIN calls : calls[i].outcome = "pending"}

\* C7: at most one copy-tool call is in flight, a call is in flight only
\* while the function waits for it, the next call starts only when no call
\* is in flight, and a finished walk has made one call per matching file.
C7_UploadIsSerial ==
    /\ Cardinality(InFlight) <= 1
    /\ \A i \in InFlight : i = Len(calls) /\ pc = "running"
    /\ pc = "launch" => InFlight = {}
    /\ pc = "done" => Len(calls) = Cardinality(MatchingFiles)

\* C7 witness: a second call is in flight after the first one has ended.
C7_Witness ==
    /\ pc = "running"
    /\ Len(calls) >= 2
    /\ calls[1].outcome # "pending"

SuccessReport == Line("  -> Upload successful!", <<>>)

\* the number of copy commands announced in the first k lines
AnnouncedBy(k) == Cardinality({m \in 1..k : stdout[m].msg = "  -> Executing"})

\* C20: every 'Upload successful!' line directly follows the announcement
\* of a copy command whose call, for that same file, returned with exit
\* code zero; and as many successes are reported as calls returned zero, so
\* a call that exited non-zero or could not be launched has none.
C20_SuccessOnlyAfterExitZero ==
    /\ \A k \in DOMAIN stdout :
          stdout[k] = SuccessReport =>
              /\ k > 1
              /\ stdout[k - 1].msg = "  -> Executing"
              /\ AnnouncedBy(k - 1) \in DOMAIN calls
              /\ LET call == calls[AnnouncedBy(k - 1)]
                 IN  /\ call.outcome = "ok"
                     /\ stdout[k - 1].arg = call.src \o <<" ">> \o call.dst
    /\ Reports(SuccessReport) = Cardinality({n \in DOMAIN calls : calls[n].outcome = "ok"})

\* C20 witness: one call returned zero, one exited non-zero and one could
\* not be launched; exactly one success is reported, for the first one.
C20_Witness ==
    /\ Len(calls) = 3
    /\ \E i, j, l \in DOMAIN calls :
          /\ calls[i].outcome = "ok"
          /\ calls[j].outcome = "CalledProcessError"
          /\ calls[l].outcome = "FileNotFoundError"
    /\ Reports(SuccessReport) = 1

-----------------------------------------------------------------------------
(* The cataloging notebook, its cells executed once each from top to       *)
(* bottom; an exception in a cell stops the run.                           *)

MaxBlobs == 3

GCS_BUCKET == <<"s", "w", "h", "m", "_", "d", "a", "t", "a">>

GCS_PREFIX == <<"p", "u", "b", "l", "i", "c", "/", "l", "a", "y", "e", "r", "s", "/">>

OUTPUT_DIR == <<".", ".", "/", ".", ".", "/", "s", "t", "a", "c", "_", "c", "a", "t", "a", "l", "o", "g">>

collection_id == <<"r", "a", "s", "t", "e", "r">>

TifExt == <<".", "t", "i", "f">>

TiffExt == <<".", "t", "i", "f", "f">>

CollectionJson == <<"c", "o", "l", "l", "e", "c", "t", "i", "o", "n", ".", "j", "s", "o", "n">>

\* blob.public_url is this followed by the bucket, '/' and the object name
PublicUrlBase == <<"h", "t", "t", "p", "s", ":", "/", "/", "s", "t", "o", "r", "a", "g", "e", ".", "g", "o", "o", "g", "l", "e", "a", "p", "i", "s", ".", "c", "o", "m", "/">>

\* root_href of collection.normalize_hrefs
NormalizeRootHref == PublicUrlBase \o GCS_BUCKET \o Slash \o GCS_PREFIX \o collection_id

\* The object names the bucket may hold under GCS_PREFIX, in the order a
\* listing returns them (by name)
BlobUniverse ==
    << GCS_PREFIX \o <<"a", "/", "a", ".", "t", "i", "f">>,
       GCS_PREFIX \o <<"b", ".", "T", "I", "F">>,
       GCS_PREFIX \o <<"b", "/", "a", ".", "t", "i", "f">>,
       GCS_PREFIX \o <<"c", ".", "t", "i", "f", "f">>,
       GCS_PREFIX \o <<"d", ".", "t", "x", "t">> >>

\* blob.time_created of the k-th object
TimeCreated(k) == 1751472552 + k

\* blob.public_url
public_url(bucket_name, name) == PublicUrlBase \o bucket_name \o Slash \o name

RECURSIVE Pick(_, _)
Pick(I, k) ==
    IF k > Len(BlobUniverse) THEN <<>>
    ELSE (IF k \in I
          THEN << [name |-> BlobUniverse[k], time_created |-> TimeCreated(k),
                   public_url |-> public_url(GCS_BUCKET, BlobUniverse[k])] >>
          ELSE <<>>) \o Pick(I, k + 1)

Listings ==
    {Pick(I, 1) : I \in {J \in SUBSET (1..Len(BlobUniverse)) : Cardinality(J) <= MaxBlobs}}

\* str.lower on the letters that occur in the object names
LowerChar(c) ==
    CASE c = "T" -> "t" [] c = "I" -> "i" [] c = "F" -> "f" [] OTHER -> c

lower(str) == [i \in 1..Len(str) |-> LowerChar(str[i])]

\* lines 93-97 and 106: the loop of list_blobs_with_prefix
ListMatches(blob, file_extension) ==
    LET name_lower == lower(blob.name)
    IN  EndsWith(name_lower, file_extension) \/ EndsWith(name_lower, TiffExt)

list_blobs_with_prefix(listed, file_extension) ==
    SelectSeq(listed, LAMBDA blob : ListMatches(blob, file_extension))

\* os.path.splitext(p)[0]: p up to its last '.', unless that dot leads the
\* base name
splitext_root(p) ==
    LET sepIndex == LastSlash(p)
        dots == {i \in 1..Len(p) : p[i] = "."}
        dotIndex == IF dots = {} THEN 0 ELSE CHOOSE i \in dots : \A j \in dots : j <= i
    IN  IF dotIndex > sepIndex /\ \E k \in (sepIndex + 1)..(dotIndex - 1) : p[k] # "."
        THEN SubSeq(p, 1, dotIndex - 1)
        ELSE p

\* line 253: the condition of the item-building loop
LoopMatches(blob) == EndsWith(blob.name, TifExt) \/ EndsWith(blob.name, TiffExt)

\* Variant: the item id keeps the extension of the object name
stac_item_IdKeepsExtension(blob) ==
    [id |-> basename(blob.name),
     source |-> blob.public_url,
     asset_href |-> blob.public_url,
     datetime |-> blob.time_created,
     self_href |-> <<>>]

\* lines 256-275: the item create_stac_item builds for a blob
stac_item(blob) ==
    [id |-> splitext_root(basename(blob.name)),
     source |-> blob.public_url,
     asset_href |-> blob.public_url,
     datetime |-> blob.time_created,
     self_href |-> <<>>]

\* lines 252-289: the items the loop adds for a list of blobs
ItemsOf(bl) ==
    LET kept == SelectSeq(bl, LoopMatches)
    IN  [i \in 1..Len(kept) |-> stac_item(kept[i])]

\* lines 332-334: the hrefs normalize_hrefs gives the collection and its
\* items below root_href: <root>/collection.json and <root>/<id>/<id>.json
normalize_hrefs(coll, root_href) ==
    [coll EXCEPT
       !.self_href = root_href \o Slash \o CollectionJson,
       !.items = [i \in 1..Len(coll.items) |->
                    [coll.items[i] EXCEPT
                       !.self_href = root_href \o Slash \o coll.items[i].id \o Slash
                                       \o coll.items[i].id \o JsonExt]]]

\* lines 346-349: the files save writes below dest_href: each object at its
\* href relative to the collection's
SavedFile(href, coll_href) ==
    LET rel == SplitSlash(SubSeq(href, LastSlash(coll_href) + 1, Len(href)))
    IN  [dir |-> SubSeq(rel, 1, Len(rel) - 1), name |-> rel[Len(rel)]]

SavedFiles(coll) ==
    {SavedFile(coll.self_href, coll.self_href)}
      \cup {SavedFile(coll.items[i].self_href, coll.self_href) : i \in DOMAIN coll.items}

\* Variant: the upload cell placed before the cell that saves the collection
CellOrder_UploadBeforeSave ==
    << "list", "filter", "catalog", "collection", "peek", "construct",
       "set_self_href", "normalize", "upload", "save", "end" >>

\* The code cells of the notebook in document order
CellOrder ==
    << "list", "filter", "catalog", "collection", "peek", "construct",
       "set_self_href", "normalize", "save", "upload", "end" >>

CellAfter(c) ==
    LET i == CHOOSE k \in DOMAIN CellOrder : CellOrder[k] = c IN CellOrder[i + 1]

NoBlobs == [defined |-> FALSE, list |-> <<>>]

\* lines 85-91: client.list_blobs(bucket_name, prefix=prefix)
ListBlobs ==
    /\ cell = "list"
    /\ steps' = Append(steps, "list")
    /\ cell' = CellAfter("list")
    /\ UNCHANGED <<listing, blobs, collection, uploadVars>>

\* lines 93-106 and 124: the blobs with the extension become the global blobs
FilterBlobs ==
    /\ cell = "filter"
    /\ blobs' = [defined |-> TRUE, list |-> list_blobs_with_prefix(listing, TifExt)]
    /\ steps' = Append(steps, "filter")
    /\ cell' = CellAfter("filter")
    /\ UNCHANGED <<listing, collection, uploadVars>>

\* lines 174-175: the root catalog is created and written to OUTPUT_DIR
CellCatalog ==
    /\ cell = "catalog"
    /\ cell' = CellAfter("catalog")
    /\ UNCHANGED <<listing, blobs, collection, steps, uploadVars>>

\* lines 189-206: the global collection is created, without items
CellCollection ==
    /\ cell = "collection"
    /\ collection' = [NoCollection EXCEPT !.defined = TRUE]
    /\ cell' = CellAfter("collection")
    /\ UNCHANGED <<listing, blobs, steps, uploadVars>>

\* lines 234-237: blobs[0] raises IndexError when nothing was listed
CellPeek ==
    /\ cell = "peek"
    /\ cell' = IF blobs.list = <<>> THEN "error" ELSE CellAfter("peek")
    /\ UNCHANGED <<listing, blobs, collection, steps, uploadVars>>

\* lines 247-289: one item per blob that passes the loop's condition
CellConstruct ==
    /\ cell = "construct"
    /\ collection' = [collection EXCEPT !.items = @ \o ItemsOf(blobs.list)]
    /\ steps' = Append(steps, "construct")
    /\ cell' = CellAfter("construct")
    /\ UNCHANGED <<listing, blobs, uploadVars>>

\* lines 264-275: create_stac_item cannot read a raster and raises; the items
\* of the blobs before it have been added
CellConstructFails ==
    /\ cell = "construct"
    /\ \E k \in DOMAIN ItemsOf(blobs.list) :
          collection' = [collection EXCEPT !.items = @ \o SubSeq(ItemsOf(blobs.list), 1, k - 1)]
    /\ cell' = "error"
    /\ UNCHANGED <<listing, blobs, steps, uploadVars>>

\* line 300: collection.set_self_href("collection.json")
CellSetSelfHref ==
    /\ cell = "set_self_href"
    /\ collection' = [collection EXCEPT !.self_href = CollectionJson]
    /\ cell' = CellAfter("set_self_href")
    /\ UNCHANGED <<listing, blobs, steps, uploadVars>>

\* lines 332-334: collection.normalize_hrefs(root_href=...)
CellNormalize ==
    /\ cell = "normalize"
    /\ collection' = normalize_hrefs(collection, NormalizeRootHref)
    /\ cell' = CellAfter("normalize")
    /\ UNCHANGED <<listing, blobs, steps, uploadVars>>

\* lines 346-349: collection.save(dest_href=output_path, catalog_type=...)
CellSave ==
    /\ cell = "save"
    /\ tree' = SavedFiles(collection)
    /\ collection' = [collection EXCEPT !.catalog_type = "ABSOLUTE PUBLISHED"]
    /\ steps' = Append(steps, "serialize")
    /\ cell' = CellAfter("save")
    /\ UNCHANGED <<listing, blobs, root_dir, bucket, prefix, pc, walk, cur, calls, stdout>>

\* line 569: upload_stac_assets is called
CellUpload ==
    /\ cell = "upload"
    /\ root_dir' = OUTPUT_DIR \o Slash \o collection_id
    /\ bucket' = GCS_BUCKET
    /\ prefix' = GCS_PREFIX \o collection_id \o Slash
    /\ pc' = "start"
    /\ cell' = "uploading"
    /\ UNCHANGED <<listing, blobs, collection, steps, tree, walk, cur, calls, stdout>>

\* line 569: upload_stac_assets returns, or raises and stops the run
CellUploadReturns ==
    /\ cell = "uploading"
    /\ pc \in Ended
    /\ cell' = IF pc = "raised" THEN "error" ELSE CellAfter("upload")
    /\ steps' = IF pc = "raised" THEN steps ELSE Append(steps, "copy")
    /\ UNCHANGED <<listing, blobs, collection, uploadVars>>

\* The shared values an action has changed
Changed ==
    (IF blobs' # blobs THEN {<<"blobs", "change">>} ELSE {})
      \cup (IF collection' # collection THEN {<<"collection", "change">>} ELSE {})
      \cup (IF tree' # tree THEN {<<"disk", "change">>} ELSE {})

\* An action of operation op, which reads the shared values in reads
Step(op, reads, action) ==
    /\ action
    /\ touched' = [touched EXCEPT ![op] = @ \cup {<<v, "read">> : v \in reads} \cup Changed]
    /\ UNCHANGED <<heroVars, callVars>>

\* An action inside upload_stac_assets, called from the notebook
InUpload(reads, action) ==
    /\ cell = "uploading"
    /\ UNCHANGED <<cell, listing, blobs, collection, steps>>
    /\ Step("upload", reads, action)

InitScript ==
    /\ cell = "list"
    /\ listing \in Listings
    /\ blobs = NoBlobs
    /\ collection = NoCollection
    /\ steps = <<>>
    /\ touched = [o \in Ops |-> {}]
    /\ HeroUnused
    /\ CallsUnused
    /\ root_dir = <<>>
    /\ bucket = <<>>
    /\ prefix = <<>>
    /\ tree = {}
    /\ pc = "idle"
    /\ walk = <<>>
    /\ cur = NoCur
    /\ calls = <<>>
    /\ stdout = <<>>

NextScript ==
    \/ Step("listing", {}, ListBlobs)
    \/ Step("listing", {}, FilterBlobs)
    \/ Step("setup", {}, CellCatalog)
    \/ Step("setup", {}, CellCollection)
    \/ Step("inspection", {"blobs"}, CellPeek)
    \/ Step("construction", {"blobs"}, CellConstruct)
    \/ Step("construction", {"blobs"}, CellConstructFails)
    \/ Step("normalization", {}, CellSetSelfHref)
    \/ Step("normalization", {"collection"}, CellNormalize)
    \/ Step("save", {"collection"}, CellSave)
    \/ Step("upload", {}, CellUpload)
    \/ InUpload({}, UploadStart)
    \/ InUpload({"disk"}, WalkStep)
    \/ InUpload({}, RunLaunch)
    \/ InUpload({}, RunLaunchFails)
    \/ InUpload({}, RunSucceeds)
    \/ InUpload({}, RunFails)
    \/ InUpload({}, WalkEnd)
    \/ Step("upload", {}, CellUploadReturns)

SpecScript == InitScript /\ [][NextScript]_vars

-----------------------------------------------------------------------------
(* Properties of the cataloging notebook.                                  *)

StepOrder == <<"list", "filter", "construct", "serialize", "copy">>

\* C8: the steps completed so far are an initial part of list, filter,
\* construct, serialize, copy (so none is repeated or out of order),
\* upload_stac_assets is not entered and no copy is made before serialize
\* has completed, and a run that reaches the end has completed all five.
C8_StepsOnceInOrder ==
    /\ Len(steps) <= Len(StepOrder)
    /\ steps = SubSeq(StepOrder, 1, Len(steps))
    /\ (pc # "idle" \/ calls # <<>>) => (Len(steps) >= 4 /\ steps[4] = "serialize")
    /\ cell = "end" => steps = StepOrder

\* C8 witness: the run reached the end after copies were made.
C8_Witness ==
    /\ cell = "end"
    /\ Len(calls) >= 2
    /\ steps = StepOrder

\* the in-memory values an operation has read or changed
InMemoryOf(o) == {x[1] : x \in touched[o]} \cap {"blobs", "collection"}

ClaimedOps == {"listing", "construction", "normalization", "save", "upload"}

IsBaseNameWithoutExtension(id, name) ==
    \E j \in 0..Len(name), k \in 1..Len(name) :
        /\ j < k
        /\ j = 0 \/ name[j] = "/"
        /\ \A m \in (j + 1)..Len(name) : name[m] # "/"
        /\ name[k] = "."
        /\ \A m \in (k + 1)..Len(name) : name[m] # "."
        /\ id = SubSeq(name, j + 1, k - 1)

\* an item holds the values of a blob
PopulatedFrom(item, blob) ==
    /\ IsBaseNameWithoutExtension(item.id, blob.name)
    /\ item.asset_href = public_url(GCS_BUCKET, blob.name)
    /\ item.source = public_url(GCS_BUCKET, blob.name)
    /\ item.datetime = blob.time_created

LoopHasRun == "construct" \in {steps[i] : i \in DOMAIN steps}

\* C21: after the item-building loop has run, the collection holds as many
\* items as list_blobs_with_prefix returned blobs.
C21_OneItemPerListedBlob ==
    LoopHasRun => Len(collection.items) = Len(blobs.list)

\* C22: after the item-building loop has run, no two items of the
\* collection have the same id.
C22_ItemIdsDistinct ==
    LoopHasRun =>
        \A i, j \in DOMAIN collection.items :
            i # j => collection.items[i].id # collection.items[j].id

-----------------------------------------------------------------------------
(* list_blobs_with_prefix called on its own, with any file_extension.      *)

UpperTifExt == <<".", "T", "I", "F">>

TxtExt == <<".", "t", "x", "t">>

\* The file_extension arguments of a call
Extensions == {TifExt, TiffExt, UpperTifExt, TxtExt}

\* lines 85-93: client.list_blobs has answered, matching_blobs = []
ListCallStart ==
    /\ listcall.pc = "start"
    /\ listcall' = [listcall EXCEPT !.pc = "loop", !.matching_blobs = <<>>]

\* lines 94-97: one iteration of the loop over the listed blobs
ListCallStep ==
    /\ listcall.pc = "loop"
    /\ listcall.i < Len(listcall.blobs)
    /\ LET blob == listcall.blobs[listcall.i + 1]
       IN  listcall' =
             [listcall EXCEPT
                !.i = @ + 1,
                !.matching_blobs =
                    IF ListMatches(blob, listcall.file_extension)
                    THEN Append(@, blob) ELSE @]

\* lines 99-106: no delimiter was given; matching_blobs is returned
ListCallReturn ==
    /\ listcall.pc = "loop"
    /\ listcall.i = Len(listcall.blobs)
    /\ listcall' = [listcall EXCEPT !.pc = "returned"]

InitList ==
    /\ \E listed \in Listings, ext \in Extensions :
          listcall = [pc |-> "start", blobs |-> listed, file_extension |-> ext,
                      i |-> 0, matching_blobs |-> <<>>]
    /\ archive = NoArchive
    /\ HeroUnused
    /\ cell = "list"
    /\ listing = <<>>
    /\ blobs = NoBlobs
    /\ collection = NoCollection
    /\ steps = <<>>
    /\ touched = [o \in Ops |-> {}]
    /\ root_dir = <<>>
    /\ bucket = <<>>
    /\ prefix = <<>>
    /\ tree = {}
    /\ pc = "idle"
    /\ walk = <<>>
    /\ cur = NoCur
    /\ calls = <<>>
    /\ stdout = <<>>

NextList ==
    \/ ListCallStart /\ UNCHANGED <<uploadVars, scriptVars, heroVars, archive>>
    \/ ListCallStep /\ UNCHANGED <<uploadVars, scriptVars, heroVars, archive>>
    \/ ListCallReturn /\ UNCHANGED <<uploadVars, scriptVars, heroVars, archive>>

SpecList == InitList /\ [][NextList]_vars

\* a name has an extension, letter case disregarded
HasExtension(name, file_extension) ==
    EndsWith(lower(name), lower(file_extension))

\* C15: list_blobs_with_prefix returns exactly the listed blobs whose name
\* has the given extension: every returned name ends with file_extension,
\* and the listed blobs whose name ends with it (letter case disregarded)
\* are all returned, in listing order.
C15_ReturnsExactlyBlobsWithExtension ==
    listcall.pc = "returned" =>
        /\ \A k \in DOMAIN listcall.matching_blobs :
              HasExtension(listcall.matching_blobs[k].name, listcall.file_extension)
        /\ listcall.matching_blobs =
              SelectSeq(listcall.blobs,
                        LAMBDA blob : HasExtension(blob.name, listcall.file_extension))

-----------------------------------------------------------------------------
(* The archived notebook old_generate_catalog.ipynb: the two definitions   *)
(* of create_gcs_catalog, each called once on the blobs the bucket holds   *)
(* under PREFIX.                                                           *)

BUCKET_NAME == <<"s", "w", "h", "m", "_", "d", "a", "t", "a">>

PREFIX == <<"p", "u", "b", "l", "i", "c", "/", "l", "a", "y", "e", "r", "s", "/", "r", "a", "s", "t", "e", "r", "/">>

OUTPUT_FILE == <<"c", "a", "t", "a", "l", "o", "g", ".", "j", "s", "o", "n">>

\* lines 38 and 117
root_href == PublicUrlBase \o BUCKET_NAME \o Slash

\* The objects the bucket may hold under PREFIX, in the order a listing
\* returns them, each with the kind of document it stores
ArchiveUniverse ==
    << [name |-> PREFIX \o <<"a", "/", "a", ".", "j", "s", "o", "n">>, doc |-> "Item"],
       [name |-> PREFIX \o <<"a", "/", "a", ".", "t", "i", "f">>, doc |-> "Raster"],
       [name |-> PREFIX \o <<"b", "/", "b", ".", "j", "s", "o", "n">>, doc |-> "Item"],
       [name |-> PREFIX \o OUTPUT_FILE, doc |-> "Catalog"],
       [name |-> PREFIX \o CollectionJson, doc |-> "Collection"] >>

RECURSIVE PickArchive(_, _)
PickArchive(I, k) ==
    IF k > Len(ArchiveUniverse) THEN <<>>
    ELSE (IF k \in I THEN <<ArchiveUniverse[k]>> ELSE <<>>) \o PickArchive(I, k + 1)

ArchiveListings ==
    {PickArchive(I, 1) :
        I \in {J \in SUBSET (1..Len(ArchiveUniverse)) : Cardinality(J) <= MaxBlobs}}

\* Variant: every listed blob is taken
IsJson_AnyBlob(blob) == TRUE

\* lines 47 and 133: blob.name.endswith('.json')
IsJson(blob) == EndsWith(blob.name, JsonExt)

\* lines 48 and 137
item_url(blob) == root_href \o blob.name

\* lines 143-147: pystac.Link(rel="item", target=item_url, ...)
ItemLink(target) ==
    [rel |-> "item", target |-> target, media_type |-> "application/json"]

\* Variant: the function goes on to save when nothing was found
AfterLoop_NoEarlyReturn(item_count) == "normalize"

\* lines 149-155: the check of item_count after the loop
AfterLoop(item_count) ==
    IF item_count = 0 THEN "empty" ELSE "normalize"

\* lines 38-44: the URL-list version starts
UrlsStart ==
    /\ archive.fn = "urls"
    /\ archive.pc = "start"
    /\ archive' = [archive EXCEPT
                     !.pc = "loop",
                     !.urls = <<>>,
                     !.out = Append(@, Line("Scanning for .json files", PREFIX))]

\* lines 46-49: one iteration of its loop
UrlsStep ==
    /\ archive.fn = "urls"
    /\ archive.pc = "loop"
    /\ archive.i < Len(archive.blobs)
    /\ LET blob == archive.blobs[archive.i + 1]
       IN  archive' = [archive EXCEPT
                         !.i = @ + 1,
                         !.urls = IF IsJson(blob) THEN Append(@, item_url(blob)) ELSE @]

\* lines 51-52: the count is printed and urls returned
UrlsReturn ==
    /\ archive.fn = "urls"
    /\ archive.pc = "loop"
    /\ archive.i = Len(archive.blobs)
    /\ archive' = [archive EXCEPT
                     !.pc = "returned",
                     !.out = Append(@, Line("Found STAC items", Len(archive.urls)))]

\* lines 117-130: the catalog-building version starts with an empty root
\* catalog and item_count = 0
CatalogStart ==
    /\ archive.fn = "catalog"
    /\ archive.pc = "start"
    /\ archive' = [archive EXCEPT
                     !.pc = "loop",
                     !.links = <<>>,
                     !.item_count = 0,
                     !.out = Append(@, Line("Scanning for .json files", PREFIX))]

\* Variant: item_count is incremented for every blob, before the test
CatalogStep_CountsEveryBlob ==
    /\ archive.fn = "catalog"
    /\ archive.pc = "loop"
    /\ archive.i < Len(archive.blobs)
    /\ LET blob == archive.blobs[archive.i + 1]
       IN  archive' =
             IF IsJson(blob)
             THEN [archive EXCEPT
                     !.i = @ + 1,
                     !.item_count = @ + 1,
                     !.links = Append(@, ItemLink(item_url(blob))),
                     !.out = @ \o << Line("", item_url(blob)),
                                     Line("  -> Adding link to", item_url(blob)) >>]
             ELSE [archive EXCEPT !.i = @ + 1, !.item_count = @ + 1]

\* lines 131-147: one iteration of its loop
CatalogStep ==
    /\ archive.fn = "catalog"
    /\ archive.pc = "loop"
    /\ archive.i < Len(archive.blobs)
    /\ LET blob == archive.blobs[archive.i + 1]
       IN  archive' =
             IF IsJson(blob)
             THEN [archive EXCEPT
                     !.i = @ + 1,
                     !.item_count = @ + 1,
                     !.links = Append(@, ItemLink(item_url(blob))),
                     !.out = @ \o << Line("", item_url(blob)),
                                     Line("  -> Adding link to", item_url(blob)) >>]
             ELSE [archive EXCEPT !.i = @ + 1]

\* lines 149-151: the loop has ended; nothing found is reported and the
\* function returns, otherwise it goes on
CatalogAfterLoop ==
    /\ archive.fn = "catalog"
    /\ archive.pc = "loop"
    /\ archive.i = Len(archive.blobs)
    /\ archive' =
         IF AfterLoop(archive.item_count) = "empty"
         THEN [archive EXCEPT
                 !.pc = "returned",
                 !.out = Append(@, Line("No .json files found", <<>>))]
         ELSE [archive EXCEPT !.pc = "normalize"]

\* line 155: root_catalog.normalize_hrefs(root_href)
CatalogNormalize ==
    /\ archive.fn = "catalog"
    /\ archive.pc = "normalize"
    /\ archive' = [archive EXCEPT !.pc = "save", !.normalized = @ + 1]

\* line 155: normalize_hrefs reads a linked document and cannot: it raises
CatalogNormalizeFails ==
    /\ archive.fn = "catalog"
    /\ archive.pc = "normalize"
    /\ archive.links # <<>>
    /\ archive' = [archive EXCEPT !.pc = "raised"]

\* lines 156-160: the catalog is written to OUTPUT_FILE and success printed
CatalogSave ==
    /\ archive.fn = "catalog"
    /\ archive.pc = "save"
    /\ archive' = [archive EXCEPT
                     !.pc = "returned",
                     !.written = @ + 1,
                     !.out = @ \o << Line("Success! Catalog saved", archive.item_count),
                                     Line("You should upload", OUTPUT_FILE) >>]

\* lines 156-157: save cannot write and raises
CatalogSaveFails ==
    /\ archive.fn = "catalog"
    /\ archive.pc = "save"
    /\ archive' = [archive EXCEPT !.pc = "raised"]

InitArchive ==
    /\ \E fn \in {"urls", "catalog"}, listed \in ArchiveListings :
          archive = [fn |-> fn, pc |-> "start", blobs |-> listed, i |-> 0,
                     urls |-> <<>>, links |-> <<>>, item_count |-> 0,
                     out |-> <<>>, normalized |-> 0, written |-> 0]
    /\ listcall = NoListCall
    /\ HeroUnused
    /\ cell = "list"
    /\ listing = <<>>
    /\ blobs = NoBlobs
    /\ collection = NoCollection
    /\ steps = <<>>
    /\ touched = [o \in Ops |-> {}]
    /\ root_dir = <<>>
    /\ bucket = <<>>
    /\ prefix = <<>>
    /\ tree = {}
    /\ pc = "idle"
    /\ walk = <<>>
    /\ cur = NoCur
    /\ calls = <<>>
    /\ stdout = <<>>

NextArchive ==
    \/ UrlsStart /\ UNCHANGED <<uploadVars, scriptVars, heroVars, listcall>>
    \/ UrlsStep /\ UNCHANGED <<uploadVars, scriptVars, heroVars, listcall>>
    \/ UrlsReturn /\ UNCHANGED <<uploadVars, scriptVars, heroVars, listcall>>
    \/ CatalogStart /\ UNCHANGED <<uploadVars, scriptVars, heroVars, listcall>>
    \/ CatalogStep /\ UNCHANGED <<uploadVars, scriptVars, heroVars, listcall>>
    \/ CatalogAfterLoop /\ UNCHANGED <<uploadVars, scriptVars, heroVars, listcall>>
    \/ CatalogNormalize /\ UNCHANGED <<uploadVars, scriptVars, heroVars, listcall>>
    \/ CatalogNormalizeFails /\ UNCHANGED <<uploadVars, scriptVars, heroVars, listcall>>
    \/ CatalogSave /\ UNCHANGED <<uploadVars, scriptVars, heroVars, listcall>>
    \/ CatalogSaveFails /\ UNCHANGED <<uploadVars, scriptVars, heroVars, listcall>>

SpecArchive == InitArchive /\ [][NextArchive]_vars

-----------------------------------------------------------------------------
(* Properties of the archived create_gcs_catalog.                          *)

\* the listed blobs whose name ends with '.json', in listing order
JsonBlobs == SelectSeq(archive.blobs, LAMBDA blob : EndsWith(blob.name, JsonExt))

\* https://storage.googleapis.com/<bucket>/<blob name>
PublicUrlOf(blob) == PublicUrlBase \o BUCKET_NAME \o Slash \o blob.name

DocAt(url) ==
    LET at == {k \in DOMAIN archive.blobs : PublicUrlOf(archive.blobs[k]) = url}
    IN  IF at = {} THEN "None" ELSE archive.blobs[CHOOSE k \in at : TRUE].doc

\* C18: every link with rel 'item' that the catalog-building version adds
\* to the root catalog targets a STAC item document, never a catalog or
\* collection document stored under the same prefix.
C18_LinksOnlyToItems ==
    archive.fn = "catalog" =>
        \A k \in DOMAIN archive.links :
            archive.links[k].rel = "item" => DocAt(archive.links[k].target) = "Item"

\* the function has printed that it found nothing
ReportsEmpty ==
    \E k \in DOMAIN archive.out : archive.out[k] = Line("No .json files found", <<>>)

\* C19: in the catalog-building version, when no listed blob ends with
\* '.json' hrefs are never normalized and the catalog file is never
\* written, and the function returns having reported the empty result;
\* when there is such a blob and the function has returned, the catalog
\* file has been written exactly once.
C19_EmptyReturnsElseWritesOnce ==
    archive.fn = "catalog" =>
        /\ JsonBlobs = <<>> =>
              /\ archive.normalized = 0
              /\ archive.written = 0
              /\ archive.pc \in {"start", "loop", "returned"}
              /\ archive.pc = "returned" => ReportsEmpty
        /\ (JsonBlobs # <<>> /\ archive.pc = "returned") =>
              /\ archive.written = 1
              /\ ~ReportsEmpty
        /\ archive.written <= 1

\* C19 witness: the function has returned from a listing that holds blobs
\* but no '.json' file, with the empty result reported and nothing written.
C19_Witness ==
    /\ archive.fn = "catalog"
    /\ archive.pc = "returned"
    /\ archive.blobs # <<>>
    /\ JsonBlobs = <<>>
    /\ ReportsEmpty
    /\ archive.written = 0

\* the links with rel 'item' added to the root catalog so far
ItemLinksAdded == SelectSeq(archive.links, LAMBDA link : link.rel = "item")

\* the number of blobs among the first n listed whose name ends with '.json'
JsonAmongFirst(n) ==
    Cardinality({k \in 1..n : EndsWith(archive.blobs[k].name, JsonExt)})

\* C25: in the catalog-building version the number of item links of the
\* root catalog equals item_count after every iteration; both equal the
\* number of '.json' blobs among those the loop has visited, hence, once
\* the loop has ended, among all listed blobs; and every success message
\* carries that number.
C25_LinksEqualItemCount ==
    archive.fn = "catalog" =>
        /\ Len(ItemLinksAdded) = archive.item_count
        /\ archive.item_count = JsonAmongFirst(archive.i)
        /\ archive.pc \in {"normalize", "save", "returned", "raised"} =>
              archive.item_count = Len(JsonBlobs)
        /\ \A k \in DOMAIN archive.out :
              archive.out[k].msg = "Success! Catalog saved" =>
                  archive.out[k].arg = Len(JsonBlobs)

\* C25 witness: the catalog was saved with two item links from a listing of
\* three blobs, and the success message says 2.
C25_Witness ==
    /\ archive.fn = "catalog"
    /\ archive.pc = "returned"
    /\ Len(archive.blobs) = 3
    /\ Len(ItemLinksAdded) = 2
    /\ archive.item_count = 2
    /\ \E k \in DOMAIN archive.out :
          archive.out[k] = Line("Success! Catalog saved", 2)

-----------------------------------------------------------------------------
(* The two collection documents of the repository, and the notebook's      *)
(* call of upload_stac_assets on the asset directories of its recorded run.*)

\* raster/collection.json, lines 44-180: the links of the document
RasterCollectionLinks ==
    <<
      [rel |-> "self",
       href |-> <<"h", "t", "t", "p", "s", ":", "/", "/", "s", "t", "o", "r", "a", "g", "e", ".", "g", "o", "o", "g", "l", "e", "a", "p", "i", "s", ".", "c", "o", "m", "/", "s", "w", "h", "m", "_", "d", "a", "t", "a", "/", "p", "u", "b", "l", "i", "c", "/", "l", "a", "y", "e", "r", "s", "/", "r", "a", "s", "t", "e", "r", "/", "c", "o", "l", "l", "e", "c", "t", "i", "o", "n", ".", "j", "s", "o", "n">>],
      [rel |-> "parent",
       href |-> <<"h", "t", "t", "p", "s", ":", "/", "/", "s", "t", "o", "r", "a", "g", "e", ".", "g", "o", "o", "g", "l", "e", "a", "p", "i", "s", ".", "c", "o", "m", "/", "s", "w", "h", "m", "_", "d", "a", "t", "a", "/", "p", "u", "b", "l", "i", "c", "/", "l", "a", "y", "e", "r", "s", "/", "c", "a", "t", "a", "l", "o", "g", ".", "j", "s", "o", "n">>],
      [rel |-> "root",
       href |-> <<"h", "t", "t", "p", "s", ":", "/", "/", "s", "t", "o", "r", "a", "g", "e", ".", "g", "o", "o", "g", "l", "e", "a", "p", "i", "s", ".", "c", "o", "m", "/", "s", "w", "h", "m", "_", "d", "a", "t", "a", "/", "p", "u", "b", "l", "i", "c", "/", "l", "a", "y", "e", "r", "s", "/", "c", "a", "t", "a", "l", "o", "g", ".", "j", "s", "o", "n">>],
      [rel |-> "item",
       href |-> <<"h", "t", "t", "p", "s", ":", "/", "/", "s", "t", "o", "r", "a", "g", "e", ".", "g", "o", "o", "g", "l", "e", "a", "p", "i", "s", ".", "c", "o", "m", "/", "s", "w", "h", "m", "_", "d", "a", "t", "a", "/", "p", "u", "b", "l", "i", "c", "/", "l", "a", "y", "e", "r", "s", "/", "r", "a", "s", "t", "e", "r", "/", "A", "g", "e", "_", "o", "f", "_", "I", "m", "p", "e", "r", "v", "i", "o", "u", "s", "n", "e", "s", "s", "/", "A", "g", "e", "_", "o", "f", "_", "I", "m", "p", "e", "r", "v", "i", "o", "u", "s", "n", "e", "s", "s", ".", "j", "s", "o", "n">>],
      [rel |-> "item",
       href |-> <<"h", "t", "t", "p", "s", ":", "/", "/", "s", "t", "o", "r", "a", "g", "e", ".", "g", "o", "o", "g", "l", "e", "a", "p", "i", "s", ".", "c", "o", "m", "/", "s", "w", "h", "m", "_", "d", "a", "t", "a", "/", "p", "u", "b", "l", "i", "c", "/", "l", "a", "y", "e", "r", "s", "/", "r", "a", "s", "t", "e", "r", "/", "F", "l", "o", "w", "_", "D", "u", "r", "a", "t", "i", "o", "n", "_", "I", "n", "d", "e", "x", "/", "F", "l", "o", "w", "_", "D", "u", "r", "a", "t", "i", "o", "n", "_", "I", "n", "d", "e", "x", ".", "j", "s", "o", "n">>],
      [rel |-> "item",
       href |-> <<"h", "t", "t", "p", "s", ":", "/", "/", "s", "t", "o", "r", "a", "g", "e", ".", "g", "o", "o", "g", "l", "e", "a", "p", "i", "s", ".", "c", "o", "m", "/", "s", "w", "h", "m", "_", "d", "a", "t", "a", "/", "p", "u", "b", "l", "i", "c", "/", "l", "a", "y", "e", "r", "s", "/", "r", "a", "s", "t", "e", "r", "/", "H", "S", "P", "F", "_", "L", "a", "n", "d", "_", "C", "o", "v", "e", "r", "_", "T", "y", "p", "e", "/", "H", "S", "P", "F", "_", "L", "a", "n", "d", "_", "C", "o", "v", "e", "r", "_", "T", "y", "p", "e", ".", "j", "s", "o", "n">>],
      [rel |-> "item",
       href |-> <<"h", "t", "t", "p", "s", ":", "/", "/", "s", "t", "o", "r", "a", "g", "e", ".", "g", "o", "o", "g", "l", "e", "a", "p", "i", "s", ".", "c", "o", "m", "/", "s", "w", "h", "m", "_", "d", "a", "t", "a", "/", "p", "u", "b", "l", "i", "c", "/", "l", "a", "y", "e", "r", "s", "/", "r", "a", "s", "t", "e", "r", "/", "H", "y", "d", "r", "o", "l", "o", "g", "i", "c", "_", "R", "e", "s", "p", "o", "n", "s", "e", "_", "U", "n", "i", "t", "s", "/", "H", "y", "d", "r", "o", "l", "o", "g", "i", "c", "_", "R", "e", "s", "p", "o", "n", "s", "e", "_", "U", "n", "i", "t", "s", ".", "j", "s", "o", "n">>],
      [rel |-> "item",
       href |-> <<"h", "t", "t", "p", "s", ":", "/", "/", "s", "t", "o", "r", "a", "g", "e", ".", "g", "o", "o", "g", "l", "e", "a", "p", "i", "s", ".", "c", "o", "m", "/", "s", "w", "h", "m", "_", "d", "a", "t", "a", "/", "p", "u", "b", "l", "i", "c", "/", "l", "a", "y", "e", "r", "s", "/", "r", "a", "s", "t", "e", "r", "/", "I", "m", "p", "e", "r", "v", "i", "o", "u", "s", "n", "e", "s", "s", "/", "I", "m", "p", "e", "r", "v", "i", "o", "u", "s", "n", "e", "s", "s", ".", "j", "s", "o", "n">>],
      [rel |-> "item",
       href |-> <<"h", "t", "t", "p", "s", ":", "/", "/", "s", "t", "o", "r", "a", "g", "e", ".", "g", "o", "o", "g", "l", "e", "a", "p", "i", "s", ".", "c", "o", "m", "/", "s", "w", "h", "m", "_", "d", "a", "t", "a", "/", "p", "u", "b", "l", "i", "c", "/", "l", "a", "y", "e", "r", "s", "/", "r", "a", "s", "t", "e", "r", "/", "L", "a", "n", "d", "_", "C", "o", "v", "e", "r", "/", "L", "a", "n", "d", "_", "C", "o", "v", "e", "r", ".", "j", "s", "o", "n">>],
      [rel |-> "item",
       href |-> <<"h", "t", "t", "p", "s", ":", "/", "/", "s", "t", "o", "r", "a", "g", "e", ".", "g", "o", "o", "g", "l", "e", "a", "p", "i", "s", ".", "c", "o", "m", "/", "s", "w", "h", "m", "_", "d", "a", "t", "a", "/", "p", "u", "b", "l", "i", "c", "/", "l", "a", "y", "e", "r", "s", "/", "r", "a", "s", "t", "e", "r", "/", "L", "a", "n", "d", "_", "U", "s", "e", "/", "L", "a", "n", "d", "_", "U", "s", "e", ".", "j", "s", "o", "n">>],
      [rel |-> "item",
       href |-> <<"h", "t", "t", "p", "s", ":", "/", "/", "s", "t", "o", "r", "a", "g", "e", ".", "g", "o", "o", "g", "l", "e", "a", "p", "i", "s", ".", "c", "o", "m", "/", "s", "w", "h", "m", "_", "d", "a", "t", "a", "/", "p", "u", "b", "l", "i", "c", "/", "l", "a", "y", "e", "r", "s", "/", "r", "a", "s", "t", "e", "r", "/", "P", "o", "p", "u", "l", "a", "t", "i", "o", "n", "_", "D", "e", "n", "s", "i", "t", "y", "/", "P", "o", "p", "u", "l", "a", "t", "i", "o", "n", "_", "D", "e", "n", "s", "i", "t", "y", ".", "j", "s", "o", "n">>],
      [rel |-> "item",
       href |-> <<"h", "t", "t", "p", "s", ":", "/", "/", "s", "t", "o", "r", "a", "g", "e", ".", "g", "o", "o", "g", "l", "e", "a", "p", "i", "s", ".", "c", "o", "m", "/", "s", "w", "h", "m", "_", "d", "a", "t", "a", "/", "p", "u", "b", "l", "i", "c", "/", "l", "a", "y", "e", "r", "s", "/", "r", "a", "s", "t", "e", "r", "/", "P", "r", "e", "c", "i", "p", "i", "t", "a", "t", "i", "o", "n", "_", "m", "m", "/", "P", "r", "e", "c", "i", "p", "i", "t", "a", "t", "i", "o", "n", "_", "m", "m", ".", "j", "s", "o", "n">>],
      [rel |-> "item",
       href |-> <<"h", "t", "t", "p", "s", ":", "/", "/", "s", "t", "o", "r", "a", "g", "e", ".", "g", "o", "o", "g", "l", "e", "a", "p", "i", "s", ".", "c", "o", "m", "/", "s", "w", "h", "m", "_", "d", "a", "t", "a", "/", "p", "u", "b", "l", "i", "c", "/", "l", "a", "y", "e", "r", "s", "/", "r", "a", "s", "t", "e", "r", "/", "R", "u", "n", "o", "f", "f", "_", "m", "m", "/", "R", "u", "n", "o", "f", "f", "_", "m", "m", ".", "j", "s", "o", "n">>],
      [rel |-> "item",
       href |-> <<"h", "t", "t", "p", "s", ":", "/", "/", "s", "t", "o", "r", "a", "g", "e", ".", "g", "o", "o", "g", "l", "e", "a", "p", "i", "s", ".", "c", "o", "m", "/", "s", "w", "h", "m", "_", "d", "a", "t", "a", "/", "p", "u", "b", "l", "i", "c", "/", "l", "a", "y", "e", "r", "s", "/", "r", "a", "s", "t", "e", "r", "/", "S", "l", "o", "p", "e", "/", "S", "l", "o", "p", "e", ".", "j", "s", "o", "n">>],
      [rel |-> "item",
       href |-> <<"h", "t", "t", "p", "s", ":", "/", "/", "s", "t", "o", "r", "a", "g", "e", ".", "g", "o", "o", "g", "l", "e", "a", "p", "i", "s", ".", "c", "o", "m", "/", "s", "w", "h", "m", "_", "d", "a", "t", "a", "/", "p", "u", "b", "l", "i", "c", "/", "l", "a", "y", "e", "r", "s", "/", "r", "a", "s", "t", "e", "r", "/", "S", "l", "o", "p", "e", "_", "C", "a", "t", "e", "g", "o", "r", "i", "e", "s", "/", "S", "l", "o", "p", "e", "_", "C", "a", "t", "e", "g", "o", "r", "i", "e", "s", ".", "j", "s", "o", "n">>],
      [rel |-> "item",
       href |-> <<"h", "t", "t", "p", "s", ":", "/", "/", "s", "t", "o", "r", "a", "g", "e", ".", "g", "o", "o", "g", "l", "e", "a", "p", "i", "s", ".", "c", "o", "m", "/", "s", "w", "h", "m", "_", "d", "a", "t", "a", "/", "p", "u", "b", "l", "i", "c", "/", "l", "a", "y", "e", "r", "s", "/", "r", "a", "s", "t", "e", "r", "/", "S", "o", "i", "l", "s", "/", "S", "o", "i", "l", "s", ".", "j", "s", "o", "n">>],
      [rel |-> "item",
       href |-> <<"h", "t", "t", "p", "s", ":", "/", "/", "s", "t", "o", "r", "a", "g", "e", ".", "g", "o", "o", "g", "l", "e", "a", "p", "i", "s", ".", "c", "o", "m", "/", "s", "w", "h", "m", "_", "d", "a", "t", "a", "/", "p", "u", "b", "l", "i", "c", "/", "l", "a", "y", "e", "r", "s", "/", "r", "a", "s", "t", "e", "r", "/", "T", "o", "t", "a", "l", "_", "C", "o", "p", "p", "e", "r", "_", "C", "o", "n", "c", "e", "n", "t", "r", "a", "t", "i", "o", "n", "/", "T", "o", "t", "a", "l", "_", "C", "o", "p", "p", "e", "r", "_", "C", "o", "n", "c", "e", "n", "t", "r", "a", "t", "i", "o", "n", ".", "j", "s", "o", "n">>],
      [rel |-> "item",
       href |-> <<"h", "t", "t", "p", "s", ":", "/", "/", "s", "t", "o", "r", "a", "g", "e", ".", "g", "o", "o", "g", "l", "e", "a", "p", "i", "s", ".", "c", "o", "m", "/", "s", "w", "h", "m", "_", "d", "a", "t", "a", "/", "p", "u", "b", "l", "i", "c", "/", "l", "a", "y", "e", "r", "s", "/", "r", "a", "s", "t", "e", "r", "/", "T", "o", "t", "a", "l", "_", "K", "j", "e", "l", "d", "a", "h", "l", "_", "N", "i", "t", "r", "o", "g", "e", "n", "_", "C", "o", "n", "c", "e", "n", "t", "r", "a", "t", "i", "o", "n", "/", "T", "o", "t", "a", "l", "_", "K", "j", "e", "l", "d", "a", "h", "l", "_", "N", "i", "t", "r", "o", "g", "e", "n", "_", "C", "o", "n", "c", "e", "n", "t", "r", "a", "t", "i", "o", "n", ".", "j", "s", "o", "n">>],
      [rel |-> "item",
       href |-> <<"h", "t", "t", "p", "s", ":", "/", "/", "s", "t", "o", "r", "a", "g", "e", ".", "g", "o", "o", "g", "l", "e", "a", "p", "i", "s", ".", "c", "o", "m", "/", "s", "w", "h", "m", "_", "d", "a", "t", "a", "/", "p", "u", "b", "l", "i", "c", "/", "l", "a", "y", "e", "r", "s", "/", "r", "a", "s", "t", "e", "r", "/", "T", "o", "t", "a", "l", "_", "P", "h", "o", "s", "p", "h", "o", "r", "u", "s", "_", "C", "o", "n", "c", "e", "n", "t", "r", "a", "t", "i", "o", "n", "/", "T", "o", "t", "a", "l", "_", "P", "h", "o", "s", "p", "h", "o", "r", "u", "s", "_", "C", "o", "n", "c", "e", "n", "t", "r", "a", "t", "i", "o", "n", ".", "j", "s", "o", "n">>],
      [rel |-> "item",
       href |-> <<"h", "t", "t", "p", "s", ":", "/", "/", "s", "t", "o", "r", "a", "g", "e", ".", "g", "o", "o", "g", "l", "e", "a", "p", "i", "s", ".", "c", "o", "m", "/", "s", "w", "h", "m", "_", "d", "a", "t", "a", "/", "p", "u", "b", "l", "i", "c", "/", "l", "a", "y", "e", "r", "s", "/", "r", "a", "s", "t", "e", "r", "/", "T", "o", "t", "a", "l", "_", "S", "u", "s", "p", "e", "n", "d", "e", "d", "_", "S", "o", "l", "i", "d", "s", "_", "C", "o", "n", "c", "e", "n", "t", "r", "a", "t", "i", "o", "n", "/", "T", "o", "t", "a", "l", "_", "S", "u", "s", "p", "e", "n", "d", "e", "d", "_", "S", "o", "l", "i", "d", "s", "_", "C", "o", "n", "c", "e", "n", "t", "r", "a", "t", "i", "o", "n", ".", "j", "s", "o", "n">>],
      [rel |-> "item",
       href |-> <<"h", "t", "t", "p", "s", ":", "/", "/", "s", "t", "o", "r", "a", "g", "e", ".", "g", "o", "o", "g", "l", "e", "a", "p", "i", "s", ".", "c", "o", "m", "/", "s", "w", "h", "m", "_", "d", "a", "t", "a", "/", "p", "u", "b", "l", "i", "c", "/", "l", "a", "y", "e", "r", "s", "/", "r", "a", "s", "t", "e", "r", "/", "T", "o", "t", "a", "l", "_", "Z", "i", "n", "c", "_", "C", "o", "n", "c", "e", "n", "t", "r", "a", "t", "i", "o", "n", "/", "T", "o", "t", "a", "l", "_", "Z", "i", "n", "c", "_", "C", "o", "n", "c", "e", "n", "t", "r", "a", "t", "i", "o", "n", ".", "j", "s", "o", "n">>],
      [rel |-> "item",
       href |-> <<"h", "t", "t", "p", "s", ":", "/", "/", "s", "t", "o", "r", "a", "g", "e", ".", "g", "o", "o", "g", "l", "e", "a", "p", "i", "s", ".", "c", "o", "m", "/", "s", "w", "h", "m", "_", "d", "a", "t", "a", "/", "p", "u", "b", "l", "i", "c", "/", "l", "a", "y", "e", "r", "s", "/", "r", "a", "s", "t", "e", "r", "/", "T", "r", "a", "f", "f", "i", "c", "/", "T", "r", "a", "f", "f", "i", "c", ".", "j", "s", "o", "n">>],
      [rel |-> "item",
       href |-> <<"h", "t", "t", "p", "s", ":", "/", "/", "s", "t", "o", "r", "a", "g", "e", ".", "g", "o", "o", "g", "l", "e", "a", "p", "i", "s", ".", "c", "o", "m", "/", "s", "w", "h", "m", "_", "d", "a", "t", "a", "/", "p", "u", "b", "l", "i", "c", "/", "l", "a", "y", "e", "r", "s", "/", "r", "a", "s", "t", "e", "r", "/", "c", "o", "p", "p", "e", "r", "_", "c", "o", "n", "c", "e", "n", "t", "r", "a", "t", "i", "o", "n", "_", "u", "g", "_", "p", "e", "r", "_", "L", "/", "c", "o", "p", "p", "e", "r", "_", "c", "o", "n", "c", "e", "n", "t", "r", "a", "t", "i", "o", "n", "_", "u", "g", "_", "p", "e", "r", "_", "L", ".", "j", "s", "o", "n">>]
    >>

\* part_000, lines 661-797: the links of the collection document that
\* follows the notebook
NotebookCollectionLinks ==
    <<
      [rel |-> "self",
       href |-> <<"h", "t", "t", "p", "s", ":", "/", "/", "s", "t", "o", "r", "a", "g", "e", ".", "g", "o", "o", "g", "l", "e", "a", "p", "i", "s", ".", "c", "o", "m", "/", "s", "w", "h", "m", "-", "s", "t", "a", "c", "-", "d", "a", "t", "a", "/", "r", "a", "s", "t", "e", "r", "/", "c", "o", "l", "l", "e", "c", "t", "i", "o", "n", ".", "j", "s", "o", "n">>],
      [rel |-> "parent",
       href |-> <<"h", "t", "t", "p", "s", ":", "/", "/", "s", "t", "o", "r", "a", "g", "e", ".", "g", "o", "o", "g", "l", "e", "a", "p", "i", "s", ".", "c", "o", "m", "/", "s", "w", "h", "m", "-", "s", "t", "a", "c", "-", "d", "a", "t", "a", "/", "c", "a", "t", "a", "l", "o", "g", ".", "j", "s", "o", "n">>],
      [rel |-> "root",
       href |-> <<"h", "t", "t", "p", "s", ":", "/", "/", "s", "t", "o", "r", "a", "g", "e", ".", "g", "o", "o", "g", "l", "e", "a", "p", "i", "s", ".", "c", "o", "m", "/", "s", "w", "h", "m", "-", "s", "t", "a", "c", "-", "d", "a", "t", "a", "/", "c", "a", "t", "a", "l", "o", "g", ".", "j", "s", "o", "n">>],
      [rel |-> "item",
       href |-> <<"h", "t", "t", "p", "s", ":", "/", "/", "s", "t", "o", "r", "a", "g", "e", ".", "g", "o", "o", "g", "l", "e", "a", "p", "i", "s", ".", "c", "o", "m", "/", "s", "w", "h", "m", "-", "s", "t", "a", "c", "-", "d", "a", "t", "a", "/", "r", "a", "s", "t", "e", "r", "/", "A", "g", "e", "_", "o", "f", "_", "I", "m", "p", "e", "r", "v", "i", "o", "u", "s", "n", "e", "s", "s", "/", "A", "g", "e", "_", "o", "f", "_", "I", "m", "p", "e", "r", "v", "i", "o", "u", "s", "n", "e", "s", "s", ".", "j", "s", "o", "n">>],
      [rel |-> "item",
       href |-> <<"h", "t", "t", "p", "s", ":", "/", "/", "s", "t", "o", "r", "a", "g", "e", ".", "g", "o", "o", "g", "l", "e", "a", "p", "i", "s", ".", "c", "o", "m", "/", "s", "w", "h", "m", "-", "s", "t", "a", "c", "-", "d", "a", "t", "a", "/", "r", "a", "s", "t", "e", "r", "/", "F", "l", "o", "w", "_", "D", "u", "r", "a", "t", "i", "o", "n", "_", "I", "n", "d", "e", "x", "/", "F", "l", "o", "w", "_", "D", "u", "r", "a", "t", "i", "o", "n", "_", "I", "n", "d", "e", "x", ".", "j", "s", "o", "n">>],
      [rel |-> "item",
       href |-> <<"h", "t", "t", "p", "s", ":", "/", "/", "s", "t", "o", "r", "a", "g", "e", ".", "g", "o", "o", "g", "l", "e", "a", "p", "i", "s", ".", "c", "o", "m", "/", "s", "w", "h", "m", "-", "s", "t", "a", "c", "-", "d", "a", "t", "a", "/", "r", "a", "s", "t", "e", "r", "/", "H", "S", "P", "F", "_", "L", "a", "n", "d", "_", "C", "o", "v", "e", "r", "_", "T", "y", "p", "e", "/", "H", "S", "P", "F", "_", "L", "a", "n", "d", "_", "C", "o", "v", "e", "r", "_", "T", "y", "p", "e", ".", "j", "s", "o", "n">>],
      [rel |-> "item",
       href |-> <<"h", "t", "t", "p", "s", ":", "/", "/", "s", "t", "o", "r", "a", "g", "e", ".", "g", "o", "o", "g", "l", "e", "a", "p", "i", "s", ".", "c", "o", "m", "/", "s", "w", "h", "m", "-", "s", "t", "a", "c", "-", "d", "a", "t", "a", "/", "r", "a", "s", "t", "e", "r", "/", "H", "y", "d", "r", "o", "l", "o", "g", "i", "c", "_", "R", "e", "s", "p", "o", "n", "s", "e", "_", "U", "n", "i", "t", "s", "/", "H", "y", "d", "r", "o", "l", "o", "g", "i", "c", "_", "R", "e", "s", "p", "o", "n", "s", "e", "_", "U", "n", "i", "t", "s", ".", "j", "s", "o", "n">>],
      [rel |-> "item",
       href |-> <<"h", "t", "t", "p", "s", ":", "/", "/", "s", "t", "o", "r", "a", "g", "e", ".", "g", "o", "o", "g", "l", "e", "a", "p", "i", "s", ".", "c", "o", "m", "/", "s", "w", "h", "m", "-", "s", "t", "a", "c", "-", "d", "a", "t", "a", "/", "r", "a", "s", "t", "e", "r", "/", "I", "m", "p", "e", "r", "v", "i", "o", "u", "s", "n", "e", "s", "s", "/", "I", "m", "p", "e", "r", "v", "i", "o", "u", "s", "n", "e", "s", "s", ".", "j", "s", "o", "n">>],
      [rel |-> "item",
       href |-> <<"h", "t", "t", "p", "s", ":", "/", "/", "s", "t", "o", "r", "a", "g", "e", ".", "g", "o", "o", "g", "l", "e", "a", "p", "i", "s", ".", "c", "o", "m", "/", "s", "w", "h", "m", "-", "s", "t", "a", "c", "-", "d", "a", "t", "a", "/", "r", "a", "s", "t", "e", "r", "/", "L", "a", "n", "d", "_", "C", "o", "v", "e", "r", "/", "L", "a", "n", "d", "_", "C", "o", "v", "e", "r", ".", "j", "s", "o", "n">>],
      [rel |-> "item",
       href |-> <<"h", "t", "t", "p", "s", ":", "/", "/", "s", "t", "o", "r", "a", "g", "e", ".", "g", "o", "o", "g", "l", "e", "a", "p", "i", "s", ".", "c", "o", "m", "/", "s", "w", "h", "m", "-", "s", "t", "a", "c", "-", "d", "a", "t", "a", "/", "r", "a", "s", "t", "e", "r", "/", "L", "a", "n", "d", "_", "U", "s", "e", "/", "L", "a", "n", "d", "_", "U", "s", "e", ".", "j", "s", "o", "n">>],
      [rel |-> "item",
       href |-> <<"h", "t", "t", "p", "s", ":", "/", "/", "s", "t", "o", "r", "a", "g", "e", ".", "g", "o", "o", "g", "l", "e", "a", "p", "i", "s", ".", "c", "o", "m", "/", "s", "w", "h", "m", "-", "s", "t", "a", "c", "-", "d", "a", "t", "a", "/", "r", "a", "s", "t", "e", "r", "/", "P", "o", "p", "u", "l", "a", "t", "i", "o", "n", "_", "D", "e", "n", "s", "i", "t", "y", "/", "P", "o", "p", "u", "l", "a", "t", "i", "o", "n", "_", "D", "e", "n", "s", "i", "t", "y", ".", "j", "s", "o", "n">>],
      [rel |-> "item",
       href |-> <<"h", "t", "t", "p", "s", ":", "/", "/", "s", "t", "o", "r", "a", "g", "e", ".", "g", "o", "o", "g", "l", "e", "a", "p", "i", "s", ".", "c", "o", "m", "/", "s", "w", "h", "m", "-", "s", "t", "a", "c", "-", "d", "a", "t", "a", "/", "r", "a", "s", "t", "e", "r", "/", "P", "r", "e", "c", "i", "p", "i", "t", "a", "t", "i", "o", "n", "_", "m", "m", "/", "P", "r", "e", "c", "i", "p", "i", "t", "a", "t", "i", "o", "n", "_", "m", "m", ".", "j", "s", "o", "n">>],
      [rel |-> "item",
       href |-> <<"h", "t", "t", "p", "s", ":", "/", "/", "s", "t", "o", "r", "a", "g", "e", ".", "g", "o", "o", "g", "l", "e", "a", "p", "i", "s", ".", "c", "o", "m", "/", "s", "w", "h", "m", "-", "s", "t", "a", "c", "-", "d", "a", "t", "a", "/", "r", "a", "s", "t", "e", "r", "/", "R", "u", "n", "o", "f", "f", "_", "m", "m", "/", "R", "u", "n", "o", "f", "f", "_", "m", "m", ".", "j", "s", "o", "n">>],
      [rel |-> "item",
       href |-> <<"h", "t", "t", "p", "s", ":", "/", "/", "s", "t", "o", "r", "a", "g", "e", ".", "g", "o", "o", "g", "l", "e", "a", "p", "i", "s", ".", "c", "o", "m", "/", "s", "w", "h", "m", "-", "s", "t", "a", "c", "-", "d", "a", "t", "a", "/", "r", "a", "s", "t", "e", "r", "/", "S", "l", "o", "p", "e", "/", "S", "l", "o", "p", "e", ".", "j", "s", "o", "n">>],
      [rel |-> "item",
       href |-> <<"h", "t", "t", "p", "s", ":", "/", "/", "s", "t", "o", "r", "a", "g", "e", ".", "g", "o", "o", "g", "l", "e", "a", "p", "i", "s", ".", "c", "o", "m", "/", "s", "w", "h", "m", "-", "s", "t", "a", "c", "-", "d", "a", "t", "a", "/", "r", "a", "s", "t", "e", "r", "/", "S", "l", "o", "p", "e", "_", "C", "a", "t", "e", "g", "o", "r", "i", "e", "s", "/", "S", "l", "o", "p", "e", "_", "C", "a", "t", "e", "g", "o", "r", "i", "e", "s", ".", "j", "s", "o", "n">>],
      [rel |-> "item",
       href |-> <<"h", "t", "t", "p", "s", ":", "/", "/", "s", "t", "o", "r", "a", "g", "e", ".", "g", "o", "o", "g", "l", "e", "a", "p", "i", "s", ".", "c", "o", "m", "/", "s", "w", "h", "m", "-", "s", "t", "a", "c", "-", "d", "a", "t", "a", "/", "r", "a", "s", "t", "e", "r", "/", "S", "o", "i", "l", "s", "/", "S", "o", "i", "l", "s", ".", "j", "s", "o", "n">>],
      [rel |-> "item",
       href |-> <<"h", "t", "t", "p", "s", ":", "/", "/", "s", "t", "o", "r", "a", "g", "e", ".", "g", "o", "o", "g", "l", "e", "a", "p", "i", "s", ".", "c", "o", "m", "/", "s", "w", "h", "m", "-", "s", "t", "a", "c", "-", "d", "a", "t", "a", "/", "r", "a", "s", "t", "e", "r", "/", "T", "o", "t", "a", "l", "_", "C", "o", "p", "p", "e", "r", "_", "C", "o", "n", "c", "e", "n", "t", "r", "a", "t", "i", "o", "n", "/", "T", "o", "t", "a", "l", "_", "C", "o", "p", "p", "e", "r", "_", "C", "o", "n", "c", "e", "n", "t", "r", "a", "t", "i", "o", "n", ".", "j", "s", "o", "n">>],
      [rel |-> "item",
       href |-> <<"h", "t", "t", "p", "s", ":", "/", "/", "s", "t", "o", "r", "a", "g", "e", ".", "g", "o", "o", "g", "l", "e", "a", "p", "i", "s", ".", "c", "o", "m", "/", "s", "w", "h", "m", "-", "s", "t", "a", "c", "-", "d", "a", "t", "a", "/", "r", "a", "s", "t", "e", "r", "/", "T", "o", "t", "a", "l", "_", "K", "j", "e", "l", "d", "a", "h", "l", "_", "N", "i", "t", "r", "o", "g", "e", "n", "_", "C", "o", "n", "c", "e", "n", "t", "r", "a", "t", "i", "o", "n", "/", "T", "o", "t", "a", "l", "_", "K", "j", "e", "l", "d", "a", "h", "l", "_", "N", "i", "t", "r", "o", "g", "e", "n", "_", "C", "o", "n", "c", "e", "n", "t", "r", "a", "t", "i", "o", "n", ".", "j", "s", "o", "n">>],
      [rel |-> "item",
       href |-> <<"h", "t", "t", "p", "s", ":", "/", "/", "s", "t", "o", "r", "a", "g", "e", ".", "g", "o", "o", "g", "l", "e", "a", "p", "i", "s", ".", "c", "o", "m", "/", "s", "w", "h", "m", "-", "s", "t", "a", "c", "-", "d", "a", "t", "a", "/", "r", "a", "s", "t", "e", "r", "/", "T", "o", "t", "a", "l", "_", "P", "h", "o", "s", "p", "h", "o", "r", "u", "s", "_", "C", "o", "n", "c", "e", "n", "t", "r", "a", "t", "i", "o", "n", "/", "T", "o", "t", "a", "l", "_", "P", "h", "o", "s", "p", "h", "o", "r", "u", "s", "_", "C", "o", "n", "c", "e", "n", "t", "r", "a", "t", "i", "o", "n", ".", "j", "s", "o", "n">>],
      [rel |-> "item",
       href |-> <<"h", "t", "t", "p", "s", ":", "/", "/", "s", "t", "o", "r", "a", "g", "e", ".", "g", "o", "o", "g", "l", "e", "a", "p", "i", "s", ".", "c", "o", "m", "/", "s", "w", "h", "m", "-", "s", "t", "a", "c", "-", "d", "a", "t", "a", "/", "r", "a", "s", "t", "e", "r", "/", "T", "o", "t", "a", "l", "_", "S", "u", "s", "p", "e", "n", "d", "e", "d", "_", "S", "o", "l", "i", "d", "s", "_", "C", "o", "n", "c", "e", "n", "t", "r", "a", "t", "i", "o", "n", "/", "T", "o", "t", "a", "l", "_", "S", "u", "s", "p", "e", "n", "d", "e", "d", "_", "S", "o", "l", "i", "d", "s", "_", "C", "o", "n", "c", "e", "n", "t", "r", "a", "t", "i", "o", "n", ".", "j", "s", "o", "n">>],
      [rel |-> "item",
       href |-> <<"h", "t", "t", "p", "s", ":", "/", "/", "s", "t", "o", "r", "a", "g", "e", ".", "g", "o", "o", "g", "l", "e", "a", "p", "i", "s", ".", "c", "o", "m", "/", "s", "w", "h", "m", "-", "s", "t", "a", "c", "-", "d", "a", "t", "a", "/", "r", "a", "s", "t", "e", "r", "/", "T", "o", "t", "a", "l", "_", "Z", "i", "n", "c", "_", "C", "o", "n", "c", "e", "n", "t", "r", "a", "t", "i", "o", "n", "/", "T", "o", "t", "a", "l", "_", "Z", "i", "n", "c", "_", "C", "o", "n", "c", "e", "n", "t", "r", "a", "t", "i", "o", "n", ".", "j", "s", "o", "n">>],
      [rel |-> "item",
       href |-> <<"h", "t", "t", "p", "s", ":", "/", "/", "s", "t", "o", "r", "a", "g", "e", ".", "g", "o", "o", "g", "l", "e", "a", "p", "i", "s", ".", "c", "o", "m", "/", "s", "w", "h", "m", "-", "s", "t", "a", "c", "-", "d", "a", "t", "a", "/", "r", "a", "s", "t", "e", "r", "/", "T", "r", "a", "f", "f", "i", "c", "/", "T", "r", "a", "f", "f", "i", "c", ".", "j", "s", "o", "n">>],
      [rel |-> "item",
       href |-> <<"h", "t", "t", "p", "s", ":", "/", "/", "s", "t", "o", "r", "a", "g", "e", ".", "g", "o", "o", "g", "l", "e", "a", "p", "i", "s", ".", "c", "o", "m", "/", "s", "w", "h", "m", "-", "s", "t", "a", "c", "-", "d", "a", "t", "a", "/", "r", "a", "s", "t", "e", "r", "/", "c", "o", "p", "p", "e", "r", "_", "c", "o", "n", "c", "e", "n", "t", "r", "a", "t", "i", "o", "n", "_", "u", "g", "_", "p", "e", "r", "_", "L", "/", "c", "o", "p", "p", "e", "r", "_", "c", "o", "n", "c", "e", "n", "t", "r", "a", "t", "i", "o", "n", "_", "u", "g", "_", "p", "e", "r", "_", "L", ".", "j", "s", "o", "n">>]
    >>

\* part_000, lines 465-560: the asset directories the recorded run found
\* below ../../stac_catalog/raster, in the order it found them
LocalAssets ==
    <<
      <<"T", "r", "a", "f", "f", "i", "c">>,
      <<"S", "l", "o", "p", "e">>,
      <<"L", "a", "n", "d", "_", "U", "s", "e">>,
      <<"T", "o", "t", "a", "l", "_", "S", "u", "s", "p", "e", "n", "d", "e", "d", "_", "S", "o", "l", "i", "d", "s", "_", "C", "o", "n", "c", "e", "n", "t", "r", "a", "t", "i", "o", "n">>,
      <<"L", "a", "n", "d", "_", "C", "o", "v", "e", "r">>,
      <<"P", "o", "p", "u", "l", "a", "t", "i", "o", "n", "_", "D", "e", "n", "s", "i", "t", "y">>,
      <<"T", "o", "t", "a", "l", "_", "P", "h", "o", "s", "p", "h", "o", "r", "u", "s", "_", "C", "o", "n", "c", "e", "n", "t", "r", "a", "t", "i", "o", "n">>,
      <<"I", "m", "p", "e", "r", "v", "i", "o", "u", "s", "n", "e", "s", "s">>,
      <<"c", "o", "p", "p", "e", "r", "_", "c", "o", "n", "c", "e", "n", "t", "r", "a", "t", "i", "o", "n", "_", "u", "g", "_", "p", "e", "r", "_", "L">>,
      <<"A", "g", "e", "_", "o", "f", "_", "I", "m", "p", "e", "r", "v", "i", "o", "u", "s", "n", "e", "s", "s">>,
      <<"F", "l", "o", "w", "_", "D", "u", "r", "a", "t", "i", "o", "n", "_", "I", "n", "d", "e", "x">>,
      <<"S", "l", "o", "p", "e", "_", "C", "a", "t", "e", "g", "o", "r", "i", "e", "s">>,
      <<"H", "S", "P", "F", "_", "L", "a", "n", "d", "_", "C", "o", "v", "e", "r", "_", "T", "y", "p", "e">>,
      <<"H", "y", "d", "r", "o", "l", "o", "g", "i", "c", "_", "R", "e", "s", "p", "o", "n", "s", "e", "_", "U", "n", "i", "t", "s">>,
      <<"P", "r", "e", "c", "i", "p", "i", "t", "a", "t", "i", "o", "n", "_", "m", "m">>,
      <<"T", "o", "t", "a", "l", "_", "C", "o", "p", "p", "e", "r", "_", "C", "o", "n", "c", "e", "n", "t", "r", "a", "t", "i", "o", "n">>,
      <<"S", "o", "i", "l", "s">>,
      <<"R", "u", "n", "o", "f", "f", "_", "m", "m">>,
      <<"T", "o", "t", "a", "l", "_", "K", "j", "e", "l", "d", "a", "h", "l", "_", "N", "i", "t", "r", "o", "g", "e", "n", "_", "C", "o", "n", "c", "e", "n", "t", "r", "a", "t", "i", "o", "n">>,
      <<"T", "o", "t", "a", "l", "_", "Z", "i", "n", "c", "_", "C", "o", "n", "c", "e", "n", "t", "r", "a", "t", "i", "o", "n">>
    >>

\* Variant: the first item of the raster collection is linked twice
CollectionDocuments_ItemLinkedTwice ==
    << Append(RasterCollectionLinks, RasterCollectionLinks[4]),
       NotebookCollectionLinks >>

\* Both collection documents
CollectionDocuments == << RasterCollectionLinks, NotebookCollectionLinks >>

MaxAssets == 2

\* collection.json at the top and <asset>/<asset>.json for some of the
\* asset directories
PublishedTrees ==
    { {[dir |-> <<>>, name |-> CollectionJson]}
        \cup {[dir |-> <<LocalAssets[k]>>, name |-> LocalAssets[k] \o JsonExt] : k \in I} :
      I \in {J \in SUBSET (DOMAIN LocalAssets) : Cardinality(J) <= MaxAssets} }

\* line 569: upload_stac_assets(root_dir='../../stac_catalog/raster',
\* bucket=GCS_BUCKET, prefix=f"{GCS_PREFIX}raster/")
InitPublish ==
    /\ cell = "uploading"
    /\ listing = <<>>
    /\ blobs = NoBlobs
    /\ collection = NoCollection
    /\ steps = <<>>
    /\ touched = [o \in Ops |-> {}]
    /\ HeroUnused
    /\ CallsUnused
    /\ root_dir = OUTPUT_DIR \o Slash \o collection_id
    /\ bucket = GCS_BUCKET
    /\ prefix = GCS_PREFIX \o collection_id \o Slash
    /\ tree \in PublishedTrees
    /\ pc = "start"
    /\ walk = <<>>
    /\ cur = NoCur
    /\ calls = <<>>
    /\ stdout = <<>>

SpecPublish == InitPublish /\ [][NextUpload]_vars

\* the hrefs of the links of a document with a given rel, in document order
HrefsOf(links, rel) ==
    LET chosen == SelectSeq(links, LAMBDA link : link.rel = rel)
    IN  [k \in 1..Len(chosen) |-> chosen[k].href]

\* the directory of an href: what precedes its last '/'
Dirname(href) == SubSeq(href, 1, LastSlash(href) - 1)

\* href is <base>/<asset>/<asset>.json for some asset
IsAssetHref(href, base) ==
    LET comps == SplitSlash(href)
        n == Len(comps)
    IN  /\ n >= 2
        /\ comps[n - 1] # <<>>
        /\ comps[n] = comps[n - 1] \o JsonExt
        /\ href = base \o Slash \o comps[n - 1] \o Slash \o comps[n]

\* every item link of both documents is <base>/<asset>/<asset>.json below
\* the directory of the document's self href
ItemLinksFollowLayout ==
    \A d \in DOMAIN CollectionDocuments :
        LET links == CollectionDocuments[d]
            items == HrefsOf(links, "item")
        IN  /\ Len(HrefsOf(links, "self")) >= 1
            /\ \A k \in DOMAIN items :
                  IsAssetHref(items[k], Dirname(HrefsOf(links, "self")[1]))

\* the public URL of a gs:// destination
PublicUrlOfDestination(dst) ==
    PublicUrlBase \o SubSeq(dst, Len(GsScheme) + 1, Len(dst))

RasterItemHrefs ==
    {HrefsOf(RasterCollectionLinks, "item")[k] :
        k \in DOMAIN HrefsOf(RasterCollectionLinks, "item")}

\* C23: in both collection documents every item link is
\* <base>/<asset>/<asset>.json below the directory of the document's self
\* href; and every destination of the notebook's upload call has, as its
\* public URL, the href of an item link of raster/collection.json.
C23_ItemLinksMirrorUploads ==
    /\ ItemLinksFollowLayout
    /\ \A i \in DOMAIN calls :
          /\ StartsWith(calls[i].dst, GsScheme)
          /\ PublicUrlOfDestination(calls[i].dst) \in RasterItemHrefs

\* C23 witness: the upload call has ended after copying two asset files,
\* and both documents have item links.
C23_Witness ==
    /\ pc = "done"
    /\ Len(calls) = 2
    /\ \A i \in DOMAIN calls : calls[i].outcome = "ok"
    /\ \A d \in DOMAIN CollectionDocuments :
          Len(HrefsOf(CollectionDocuments[d], "item")) >= 2

CatalogJson == <<"c", "a", "t", "a", "l", "o", "g", ".", "j", "s", "o", "n">>

\* a document has one self, one parent and one root link, parent and root
\* lead to the catalog.json one directory above the document, and its item
\* links are pairwise different
WellLinked(links) ==
    LET self == HrefsOf(links, "self")
        parent == HrefsOf(links, "parent")
        root == HrefsOf(links, "root")
        items == HrefsOf(links, "item")
    IN  /\ Len(self) = 1
        /\ Len(parent) = 1
        /\ Len(root) = 1
        /\ parent[1] = root[1]
        /\ parent[1] = Dirname(Dirname(self[1])) \o Slash \o CatalogJson
        /\ \A i, j \in DOMAIN items : i # j => items[i] # items[j]

\* C24: each collection document has exactly one self, one parent and one
\* root link, parent and root have the same href, the catalog.json in the
\* parent directory of the self href, and no two item links have the same
\* href; this is so at every point of the call that publishes the files.
C24_DocumentsWellLinked ==
    pc # "idle" =>
        \A d \in DOMAIN CollectionDocuments : WellLinked(CollectionDocuments[d])

\* C24 witness: both documents have been read to the end: each has its
\* three structural links and twenty item links; the upload call that
\* publishes the raster collection's files has ended.
C24_Witness ==
    /\ pc \in Ended
    /\ \A d \in DOMAIN CollectionDocuments :
          /\ Len(CollectionDocuments[d]) = 23
          /\ Len(HrefsOf(CollectionDocuments[d], "item")) = 20
          /\ Len(HrefsOf(CollectionDocuments[d], "parent")) = 1

-----------------------------------------------------------------------------
(* The Hero component (Hero.vue).  The parent passes each prop or leaves   *)
(* it out; the component renders when it is mounted and again after a prop *)
(* has changed.                                                            *)

PropNames == {"title", "subtitle", "backgroundImage"}

\* The strings a parent may pass
PropStrings == {"", "Layers", "a'b)<i>\"c"}

\* What a parent may pass for a prop: nothing, a string, or a value that
\* is not a string (value holds its display string)
PropInputs ==
    {NoProp}
      \cup {[given |-> TRUE, value |-> v, type |-> "String"] : v \in PropStrings}
      \cup {[given |-> TRUE, value |-> "42", type |-> "Number"]}

\* Variant: the defaults of title and subtitle exchanged
PropDefault_TitleSubtitleSwapped(name) ==
    CASE name = "title" -> "Explore geospatial data collections for stormwater management"
      [] name = "subtitle" -> "Stormwater Heatmap STAC Catalog"
      [] name = "backgroundImage" ->
           "https://images.unsplash.com/photo-1446329813274-7c9036bd9a1f?ixlib=rb-4.0.3&ixid=M3wxMjA3fDB8MHxwaG90by1wYWdlfHx8fGVufDB8fHx8fA%3D%3D&auto=format&fit=crop&w=2340&q=80"

\* lines 14-27: the default of each prop
PropDefault(name) ==
    CASE name = "title" -> "Stormwater Heatmap STAC Catalog"
      [] name = "subtitle" -> "Explore geospatial data collections for stormwater management"
      [] name = "backgroundImage" ->
           "https://images.unsplash.com/photo-1446329813274-7c9036bd9a1f?ixlib=rb-4.0.3&ixid=M3wxMjA3fDB8MHxwaG90by1wYWdlfHx8fGVufDB8fHx8fA%3D%3D&auto=format&fit=crop&w=2340&q=80"

\* this.<name>: the value passed, or the default when the prop is left out
PropValue(props, name) ==
    IF props[name].given THEN props[name].value ELSE PropDefault(name)

\* Variant: a type check that also rejects the empty string
PropTypeOk_RejectsEmpty(input) ==
    input.type = "String" /\ input.value # ""

\* lines 16, 20, 24: type: String
PropTypeOk(input) ==
    input.type = "String"

\* lines 14-27: the complaints the prop declarations raise for the props passed
PropErrors(props) ==
    {<<"Invalid prop: type check failed", name>> :
        name \in {n \in PropNames : props[n].given /\ ~PropTypeOk(props[n])}}

\* Variant: the component announces each update to its parent
HeroEmits_OnUpdate(step) ==
    IF step = "update" THEN {"update"} ELSE {}

\* lines 12-35: the events the component emits at a step of its life (it
\* declares no emits and calls no $emit)
HeroEmits(step) == {}

\* lines 12-35: the calls the component makes outside itself at a step of
\* its life (it has no methods, hooks or watchers)
HeroCalls(step) == {}

\* what has left the component after a step
Output(step, props) ==
    [events |-> hero_out.events \cup HeroEmits(step),
     calls |-> hero_out.calls \cup HeroCalls(step),
     errors |-> PropErrors(props)]

\* Variant: the URL is percent-encoded before it is inserted (here: the
\* empty string stays, any other value is marked as encoded)
heroStyle_EncodesUrl(props) ==
    [backgroundImage |->
        "url('" \o (IF PropValue(props, "backgroundImage") = "" THEN ""
                    ELSE "encoded:" \o PropValue(props, "backgroundImage")) \o "')"]

\* Variant: the style is computed from the title
heroStyle_UsesTitle(props) ==
    [backgroundImage |-> "url('" \o PropValue(props, "title") \o "')"]

\* lines 28-34: the computed heroStyle
heroStyle(props) ==
    [backgroundImage |-> "url('" \o PropValue(props, "backgroundImage") \o "')"]

\* lines 1-9: the template
Render(props) ==
    [mounted |-> TRUE,
     h1 |-> PropValue(props, "title"),
     p |-> PropValue(props, "subtitle"),
     style |-> heroStyle(props)]

\* lines 2, 5, 6: the part of the rendered output that shows a prop
RenderedOf(dom, name) ==
    CASE name = "title" -> dom.h1
      [] name = "subtitle" -> dom.p
      [] name = "backgroundImage" -> dom.style.backgroundImage

\* the component is mounted and rendered for the first time
HeroMount ==
    /\ ~hero_dom.mounted
    /\ hero_dom' = Render(hero_props)
    /\ hero_dirty' = FALSE
    /\ hero_out' = Output("mount", hero_props)
    /\ hero_trace' = [last |-> [rendered |-> TRUE, props |-> hero_props],
                      prev |-> NoPrev]
    /\ UNCHANGED hero_props

\* the parent passes another value for a prop, or stops passing it
HeroSetProp ==
    /\ hero_dom.mounted
    /\ \E name \in PropNames, v \in PropInputs :
          /\ hero_props[name] # v
          /\ hero_props' = [hero_props EXCEPT ![name] = v]
    /\ hero_dirty' = TRUE
    /\ hero_out' = Output("props", hero_props')
    /\ hero_trace' = [hero_trace EXCEPT !.prev = NoPrev]
    /\ UNCHANGED hero_dom

\* Variant: the paragraph is rendered once and kept
HeroUpdate_KeepsParagraph ==
    /\ hero_dom.mounted
    /\ hero_dirty
    /\ hero_dom' = [Render(hero_props) EXCEPT !.p = hero_dom.p]
    /\ hero_dirty' = FALSE
    /\ hero_out' = Output("update", hero_props)
    /\ hero_trace' = [last |-> [rendered |-> TRUE, props |-> hero_props],
                      prev |-> [rendered |-> TRUE,
                                props |-> hero_trace.last.props,
                                dom |-> hero_dom]]
    /\ UNCHANGED hero_props

\* the component renders again after a prop has changed
HeroUpdate ==
    /\ hero_dom.mounted
    /\ hero_dirty
    /\ hero_dom' = Render(hero_props)
    /\ hero_dirty' = FALSE
    /\ hero_out' = Output("update", hero_props)
    /\ hero_trace' = [last |-> [rendered |-> TRUE, props |-> hero_props],
                      prev |-> [rendered |-> TRUE,
                                props |-> hero_trace.last.props,
                                dom |-> hero_dom]]
    /\ UNCHANGED hero_props

InitHero ==
    /\ hero_props \in [PropNames -> PropInputs]
    /\ hero_dom = Unmounted
    /\ hero_dirty = FALSE
    /\ hero_out = NoOutput
    /\ hero_trace = NoTrace
    /\ CallsUnused
    /\ cell = "list"
    /\ listing = <<>>
    /\ blobs = NoBlobs
    /\ collection = NoCollection
    /\ steps = <<>>
    /\ touched = [o \in Ops |-> {}]
    /\ root_dir = <<>>
    /\ bucket = <<>>
    /\ prefix = <<>>
    /\ tree = {}
    /\ pc = "idle"
    /\ walk = <<>>
    /\ cur = NoCur
    /\ calls = <<>>
    /\ stdout = <<>>

NextHero ==
    \/ HeroMount /\ UNCHANGED <<uploadVars, scriptVars, callVars>>
    \/ HeroSetProp /\ UNCHANGED <<uploadVars, scriptVars, callVars>>
    \/ HeroUpdate /\ UNCHANGED <<uploadVars, scriptVars, callVars>>

SpecHero == InitHero /\ [][NextHero]_vars

-----------------------------------------------------------------------------
(* Properties of the Hero component.                                       *)

\* C10: rendered with no prop supplied, the heading shows the default
\* title, the paragraph the default subtitle, and the container's
\* background-image style holds the default image URL.
C10_HeroRendersDefaults ==
    (/\ hero_dom.mounted
     /\ ~hero_dirty
     /\ \A name \in PropNames : ~hero_props[name].given)
    => /\ hero_dom.h1 = "Stormwater Heatmap STAC Catalog"
       /\ hero_dom.p = "Explore geospatial data collections for stormwater management"
       /\ hero_dom.style.backgroundImage =
            "url('https://images.unsplash.com/photo-1446329813274-7c9036bd9a1f?ixlib=rb-4.0.3&ixid=M3wxMjA3fDB8MHxwaG90by1wYWdlfHx8fGVufDB8fHx8fA%3D%3D&auto=format&fit=crop&w=2340&q=80')"

\* C10 witness: the component has rendered with no prop supplied.
C10_Witness ==
    /\ hero_dom.mounted
    /\ ~hero_dirty
    /\ \A name \in PropNames : ~hero_props[name].given

\* the props whose value differs between two sets of props
Overridden(before, after) ==
    {name \in PropNames : before[name] # after[name]}

\* C11: after a render that follows an override of props, the heading, the
\* paragraph and the background-image style of every prop that was not
\* overridden are what they were in the render before.
C11_OverrideReplacesOnlyThatValue ==
    (/\ hero_dom.mounted
     /\ ~hero_dirty
     /\ hero_trace.prev.rendered)
    => \A name \in PropNames \ Overridden(hero_trace.prev.props, hero_props) :
          RenderedOf(hero_dom, name) = RenderedOf(hero_trace.prev.dom, name)

\* C11 witness: exactly one prop was overridden and rendered, its part of
\* the output has changed and the two other parts have not.
C11_Witness ==
    /\ hero_dom.mounted
    /\ ~hero_dirty
    /\ hero_trace.prev.rendered
    /\ \E name \in PropNames :
          /\ Overridden(hero_trace.prev.props, hero_props) = {name}
          /\ RenderedOf(hero_dom, name) # RenderedOf(hero_trace.prev.dom, name)
          /\ \A other \in PropNames \ {name} :
                RenderedOf(hero_dom, other) = RenderedOf(hero_trace.prev.dom, other)

\* the strings among the values passed
AllStrings(props) ==
    \A name \in PropNames : props[name].given => props[name].type = "String"

\* C12: whatever strings are passed for title, subtitle and
\* backgroundImage, the component is in no error state.
C12_NoErrorsForStrings ==
    (hero_dom.mounted /\ AllStrings(hero_props)) => hero_out.errors = {}

\* C12 witness: the component has rendered a string with quotes,
\* parentheses and markup in all three props, and the empty string, without
\* error.
C12_Witness ==
    /\ hero_dom.mounted
    /\ ~hero_dirty
    /\ hero_trace.prev.rendered
    /\ hero_out.errors = {}
    /\ hero_props["title"] = [given |-> TRUE, value |-> "", type |-> "String"]
    /\ \A name \in {"subtitle", "backgroundImage"} :
          hero_props[name] = [given |-> TRUE, value |-> "a'b)<i>\"c", type |-> "String"]
    /\ hero_dom.p = "a'b)<i>\"c"

\* C13: whenever the component is rendered and up to date, its output is
\* the template applied to the current prop values, whatever was passed
\* and rendered before.
C13_OutputIsFunctionOfCurrentProps ==
    (hero_dom.mounted /\ ~hero_dirty) => hero_dom = Render(hero_props)

\* C13 witness: the component has rendered again after all three props
\* were given other values than in the render before.
C13_Witness ==
    /\ hero_dom.mounted
    /\ ~hero_dirty
    /\ hero_trace.prev.rendered
    /\ Overridden(hero_trace.prev.props, hero_props) = PropNames
    /\ \A name \in PropNames : hero_trace.prev.props[name].given

\* C14: the component has emitted no event and made no call outside
\* itself.
C14_NoEventsNoCalls ==
    hero_out.events = {} /\ hero_out.calls = {}

\* C14 witness: the component was mounted, its props were updated and it
\* has rendered again, with nothing emitted and nothing called.
C14_Witness ==
    /\ hero_dom.mounted
    /\ ~hero_dirty
    /\ hero_trace.prev.rendered
    /\ hero_trace.prev.dom # hero_dom
    /\ hero_out.events = {}
    /\ hero_out.calls = {}

\* C26: whenever the component is rendered and up to date with a string
\* passed for backgroundImage, its style has the one entry backgroundImage,
\* which is "url('" followed by the current value, unchanged, and "')".
C26_StyleIsUrlOfCurrentImage ==
    (/\ hero_dom.mounted
     /\ ~hero_dirty
     /\ hero_props["backgroundImage"].given
     /\ hero_props["backgroundImage"].type = "String")
    => /\ DOMAIN hero_dom.style = {"backgroundImage"}
       /\ hero_dom.style.backgroundImage =
             "url('" \o hero_props["backgroundImage"].value \o "')"

\* C26 witness: backgroundImage was changed to a string with quotes,
\* parentheses and markup, and the component has rendered it: the style
\* differs from the one before and holds the string as it was passed.
C26_Witness ==
    /\ hero_dom.mounted
    /\ ~hero_dirty
    /\ hero_trace.prev.rendered
    /\ hero_trace.prev.props["backgroundImage"].given
    /\ hero_trace.prev.props["backgroundImage"].value = "Layers"
    /\ hero_props["backgroundImage"] =
          [given |-> TRUE, value |-> "a'b)<i>\"c", type |-> "String"]
    /\ hero_dom.style.backgroundImage = "url('a'b)<i>\"c')"
    /\ hero_trace.prev.dom.style.backgroundImage = "url('Layers')"

====
